---- MODULE Spec2Model ----
(***************************************************************************)
(* The authenticated API client of the application: the request            *)
(* interceptor that attaches the bearer token, the response interceptor    *)
(* with its single-flight token refresh (isRefreshing / failedQueue), the  *)
(* credential store behind utils/storage, and the error taxonomy.          *)
(*                                                                         *)
(* JavaScript runs each handler to its next await without interleaving, so *)
(* one action is the code between two suspension points.  The suspension   *)
(* points are the AsyncStorage calls, the transport round trip of a caller *)
(* request and the refresh call.  AsyncStorage serves its calls one at a   *)
(* time in the order they were issued: storeQ is that order.               *)
(***************************************************************************)
EXTENDS Integers, Sequences, FiniteSets, TLC

\* ------------------------------------------------------------------ bounds
NReq == 2            \* caller requests
MaxSends == 3        \* transport dispatches of one caller request
MaxStoreFail == 2    \* AsyncStorage calls that fail in one run
MaxOps == 2          \* AuthContext operations called after the mount
MaxUpdates == 3      \* overlapping updates of one item

Reqs == 1..NReq

\* The requests of a burst: the one that starts the refresh cycle and NReq more.
BurstReqs == 1..(NReq + 1)

\* --------------------------------------------------------- program constants
HTTP_OK == 200
HTTP_BAD_REQUEST == 400
HTTP_UNAUTHORIZED == 401
HTTP_FORBIDDEN == 403
HTTP_NOT_FOUND == 404
HTTP_CONFLICT == 409
HTTP_INTERNAL_SERVER_ERROR == 500

ACCESS_TOKEN == "authToken"
REFRESH_TOKEN == "refreshToken"

\* Keys of the credential store; a value of 0 is an absent key (getItem: null).
StoreKeys == {ACCESS_TOKEN, REFRESH_TOKEN, "user", "isLoggedIn"}

\* The access (and refresh) token a logged-in session starts with.
InitialToken == 1

\* Statuses the transport answers a caller request with, and the `message`
\* of an error body ("" when the body carries none).
Statuses == {HTTP_OK, HTTP_UNAUTHORIZED, HTTP_INTERNAL_SERVER_ERROR}
BodyMsgs == {"", "denied"}

\* What the server answers a caller request with: a success, an expired token
\* with a message in the body, a server error whose body carries no message.
Answers ==
  {<<HTTP_OK, "">>, <<HTTP_UNAUTHORIZED, "denied">>, <<HTTP_INTERNAL_SERVER_ERROR, "">>}

\* Strings the code searches are sequences of characters.
\* s.includes(pat)
includes(s, pat) ==
  \E i \in 0..(Len(s) - Len(pat)) : SubSeq(s, i + 1, i + Len(pat)) = pat

AUTH_LOGIN == <<"/", "a", "u", "t", "h", "/", "l", "o", "g", "i", "n">>
AUTH_SIGNUP == <<"/", "a", "u", "t", "h", "/", "s", "i", "g", "n", "u", "p">>
AUTH_REFRESH == <<"/", "a", "u", "t", "h", "/", "r", "e", "f", "r", "e", "s", "h">>

AUTH_LOGOUT == <<"/", "a", "u", "t", "h", "/", "l", "o", "g", "o", "u", "t">>
USERS_ME == <<"/", "u", "s", "e", "r", "s", "/", "m", "e">>

\* config.url of the caller requests: a resource endpoint, the login endpoint,
\* the signup endpoint and the logout endpoint.
Urls ==
  << <<"/", "u", "s", "e", "r", "s", "/", "m", "e">>,
     <<"/", "a", "u", "t", "h", "/", "l", "o", "g", "i", "n">>,
     <<"/", "a", "u", "t", "h", "/", "s", "i", "g", "n", "u", "p">>,
     <<"/", "a", "u", "t", "h", "/", "l", "o", "g", "o", "u", "t">> >>

\* What a login or signup answers with (data.accessToken, data.refreshToken,
\* data.user), the mock token and user of AuthContext.login and signup, and the
\* user a profile update answers with.
LoginToken == 8
MockToken == 7
UpdatedUser == 9

\* What the transport can fail with when no response arrives: error.code, and
\* error.message both as the string the error carries and as its characters.
TransportFailures ==
  { [code |-> "ECONNABORTED", message |-> "timeout of 10000ms exceeded",
     chars |-> <<"t", "i", "m", "e", "o", "u", "t", " ", "o", "f", " ", "1", "0", "0", "0", "0", "m", "s", " ", "e", "x", "c", "e", "e", "d", "e", "d">>],
    [code |-> "ECONNABORTED", message |-> "Request aborted",
     chars |-> <<"R", "e", "q", "u", "e", "s", "t", " ", "a", "b", "o", "r", "t", "e", "d">>],
    [code |-> "ETIMEDOUT", message |-> "connect timeout",
     chars |-> <<"c", "o", "n", "n", "e", "c", "t", " ", "t", "i", "m", "e", "o", "u", "t">>],
    [code |-> "ERR_NETWORK", message |-> "Network Error",
     chars |-> <<"N", "e", "t", "w", "o", "r", "k", " ", "E", "r", "r", "o", "r">>] }

TIMEOUT == <<"t", "i", "m", "e", "o", "u", "t">>

\* error.message of an AxiosError that carries a response
AxiosMessage == "Request failed"

\* ------------------------------------------------------------ error taxonomy
NoError ==
  [name |-> "none", statusCode |-> 0, message |-> "", response |-> "", originalError |-> ""]

ApiError(statusCode, message, response, originalError) ==
  [name |-> "ApiError", statusCode |-> statusCode, message |-> message,
   response |-> response, originalError |-> originalError]

BadRequestError(message, response, originalError) ==
  [ApiError(HTTP_BAD_REQUEST, message, response, originalError) EXCEPT !.name = "BadRequestError"]

UnauthorizedError(message, response, originalError) ==
  [ApiError(HTTP_UNAUTHORIZED, message, response, originalError) EXCEPT !.name = "UnauthorizedError"]

ForbiddenError(message, response, originalError) ==
  [ApiError(HTTP_FORBIDDEN, message, response, originalError) EXCEPT !.name = "ForbiddenError"]

NotFoundError(message, response, originalError) ==
  [ApiError(HTTP_NOT_FOUND, message, response, originalError) EXCEPT !.name = "NotFoundError"]

ConflictError(message, response, originalError) ==
  [ApiError(HTTP_CONFLICT, message, response, originalError) EXCEPT !.name = "ConflictError"]

ServerError(message, response, originalError) ==
  [ApiError(HTTP_INTERNAL_SERVER_ERROR, message, response, originalError) EXCEPT !.name = "ServerError"]

\* Mutant of createApiError: every 5xx status is made a ServerError.
createApiErrorAll5xx(statusCode, message, response, originalError) ==
  IF statusCode >= HTTP_INTERNAL_SERVER_ERROR
  THEN ServerError(message, response, originalError)
  ELSE ApiError(statusCode, message, response, originalError)

createApiError(statusCode, message, response, originalError) ==
  CASE statusCode = HTTP_BAD_REQUEST -> BadRequestError(message, response, originalError)
    [] statusCode = HTTP_UNAUTHORIZED -> UnauthorizedError(message, response, originalError)
    [] statusCode = HTTP_FORBIDDEN -> ForbiddenError(message, response, originalError)
    [] statusCode = HTTP_NOT_FOUND -> NotFoundError(message, response, originalError)
    [] statusCode = HTTP_CONFLICT -> ConflictError(message, response, originalError)
    [] statusCode = HTTP_INTERNAL_SERVER_ERROR -> ServerError(message, response, originalError)
    [] OTHER -> ApiError(statusCode, message, response, originalError)

NetworkError(message, originalError) ==
  [ApiError(0, message, "", originalError) EXCEPT !.name = "NetworkError"]

TimeoutError(message, originalError) ==
  [ApiError(0, message, "", originalError) EXCEPT !.name = "TimeoutError"]

\* Names of the classes that are instanceof ApiError, and of those that are
\* instanceof Error.
ApiErrorNames ==
  {"ApiError", "BadRequestError", "UnauthorizedError", "ForbiddenError", "NotFoundError",
   "ConflictError", "ServerError", "NetworkError", "TimeoutError"}
ErrorNames == ApiErrorNames \cup {"Error", "AxiosError"}

Unexpected == "An unexpected error occurred"

\* a || b on strings
JsOr(a, b) == IF a # "" THEN a ELSE b

\* Mutant of getUserMessage: the own message is returned without the fallback.
getUserMessageNoFallback(e) == IF e.response # "" THEN e.response ELSE e.message

\* ApiError.getUserMessage(): response?.message if truthy, else message || fallback.
getUserMessage(e) == IF e.response # "" THEN e.response ELSE JsOr(e.message, Unexpected)

\* formatErrorMessage(error)
formatErrorMessage(error) ==
  IF error.name \in ApiErrorNames THEN getUserMessage(error)
  ELSE IF error.name \in ErrorNames THEN error.message
  ELSE Unexpected

\* The raw error axios.post rejects with when the refresh call fails: it was
\* sent on the bare axios instance, so no interceptor has mapped it.
AxiosError(status) ==
  [name |-> "AxiosError", statusCode |-> status, message |-> AxiosMessage,
   response |-> "", originalError |-> ""]

\* The error setItem / removeItem rethrow when AsyncStorage rejects.
StorageError ==
  [name |-> "Error", statusCode |-> 0, message |-> "storage failure",
   response |-> "", originalError |-> ""]

\* A value handed to formatErrorMessage is a record of this shape: an error by
\* its class name, or null / undefined / a string / a plain object.
Value(name, message, response) ==
  [name |-> name, statusCode |-> 0, message |-> message, response |-> response,
   originalError |-> ""]

\* No function of services/errors is being called.
NoProbe == [fn |-> "none", arg |-> NoError, out |-> NoError, text |-> ""]

\* -------------------------------------------------------------------- state
VARIABLES
  isRefreshing,   \* module-level flag of api/client.ts
  failedQueue,    \* module-level queue: the requests whose continuation is queued
  store,          \* AsyncStorage content under the four credential keys
  storeQ,         \* AsyncStorage calls issued and not yet served, in issue order
  req,            \* per caller request: its position in the pipeline and its config
  session,        \* AuthContext state: isAuthenticated, user
  refreshCalls,   \* refresh calls put on the transport so far
  issued,         \* access tokens the server has handed out so far
  storeFails,     \* AsyncStorage calls that have failed so far
  late401,        \* a not-yet-retried 401 started a cycle after another cycle had ended
  noRefreshToken, \* some cycle has found no refresh token in the store
  onlyStale401,   \* every 401 so far answered a request carrying InitialToken
  probe,          \* one call of a function of services/errors: arguments and result
  isLoading,      \* AuthContext state: the check of the stored session is running
  ctx,            \* AuthContext operations (checkAuth, login/signup, logout): position
  hook,           \* per caller request: position of the mutation hook that issued it
  ops,            \* AuthContext operations started so far
  retryer,        \* query layer: the attempts of one query or mutation
  items           \* query layer: the cached item detail and the updates of the item

providerVars == <<isLoading, ctx, hook, ops>>

queryVars == <<retryer, items>>

vars ==
  <<isRefreshing, failedQueue, store, storeQ, req, session, refreshCalls, issued,
    storeFails, late401, noRefreshToken, onlyStale401, probe, isLoading, ctx, hook, ops,
    retryer, items>>

NewRequest ==
  [pc |-> "new", retry |-> FALSE, hdr |-> 0, sends |-> 0, status |-> 0, body |-> "",
   err |-> NoError, pend |-> 0, tok |-> 0, cause |-> NoError, got401 |-> FALSE,
   rejBy |-> 0, url |-> 1]

\* ---------------------------------------------------------- utils/storage
GetOp(key, r, tag) == [op |-> "get", key |-> key, val |-> 0, req |-> r, tag |-> tag]
SetOp(key, val, r, tag) == [op |-> "set", key |-> key, val |-> val, req |-> r, tag |-> tag]
RemoveOp(key, r, tag) == [op |-> "remove", key |-> key, val |-> 0, req |-> r, tag |-> tag]

\* multiSet of the pairs a login stores: with or without the refresh token.
\* All the values of one login are modelled by one number.
MultiSetOp(key, val, r, tag) ==
  [op |-> "multiSet", key |-> key, val |-> val, req |-> r, tag |-> tag]

\* Mutant of MultiKeys: the tokens are not among the pairs written.
MultiKeysWithoutTokens(key) == {"user", "isLoggedIn"}

\* The keys a multiSet call writes.
MultiKeys(key) ==
  IF key = "user+authToken+isLoggedIn" THEN StoreKeys \ {REFRESH_TOKEN} ELSE StoreKeys

\* The store after AsyncStorage has served call o successfully.
ApplyOp(st, o) ==
  CASE o.op = "set" -> [st EXCEPT ![o.key] = o.val]
    [] o.op = "remove" -> [st EXCEPT ![o.key] = 0]
    [] o.op = "multiSet" -> [k \in StoreKeys |-> IF k \in MultiKeys(o.key) THEN o.val ELSE st[k]]
    [] OTHER -> st

\* getItem: the stored value, null when the key is absent or the read fails.
getItem(st, key, okk) == IF okk THEN st[key] ELSE 0


\* ------------------------------------------ api/client.ts: request interceptor
\* Mutant of isAuthEndpoint: no URL is exempt.
isAuthEndpointNever(url) == FALSE

\* url.includes('/auth/login') || url.includes('/auth/signup') || url.includes('/auth/refresh')
isAuthEndpoint(url) ==
  includes(url, AUTH_LOGIN) \/ includes(url, AUTH_SIGNUP) \/ includes(url, AUTH_REFRESH)

\* URLs of the resource endpoints (those the request interceptor does not exempt).
ResourceUrls == {u \in 1..Len(Urls) : ~isAuthEndpoint(Urls[u])}

\* URLs of the data endpoints (the resource endpoints other than /auth/logout).
DataUrls == {u \in ResourceUrls : Urls[u] # AUTH_LOGOUT}

\* Mutant of attachToken: the header is written whatever getItem returned.
attachTokenUnchecked(old, token) == token

\* if (token && config.headers) config.headers.Authorization = `Bearer ${token}`
attachToken(old, token) == IF token # 0 THEN token ELSE old

\* The request interceptor up to its await: for an auth endpoint it returns the
\* config untouched and the transport sends it; otherwise it awaits
\* getItem(ACCESS_TOKEN).
enter(q) ==
  IF q.url \notin ResourceUrls
  THEN [q EXCEPT !.pc = "inflight", !.sends = @ + 1]
  ELSE [q EXCEPT !.pc = "attach"]

\* ------------------------------------------------------ api/client.ts: queue
\* The promise of a caller request settles: its config is no longer used.
settle(q) == [q EXCEPT !.pc = "done", !.hdr = 0, !.tok = 0, !.pend = 0, !.cause = NoError]

InQueue(q, r) == \E i \in 1..Len(q) : q[i] = r

\* processQueue(error, token), seen from the queued requests: a rejected
\* continuation hands `error` to its caller (the .catch rethrows it); a resolved
\* one sets the bearer header when the token is truthy and calls
\* client(originalRequest), which enters the request interceptor.
processQueue(rq, q, error, token, o) ==
  [x \in BurstReqs |->
     IF ~InQueue(q, x) THEN rq[x]
     ELSE IF error # NoError
          THEN settle([rq[x] EXCEPT !.err = error, !.rejBy = o])
          ELSE enter([rq[x] EXCEPT !.hdr = IF token # 0 THEN token ELSE @, !.tok = token])]

\* client(config): the request interceptor starts.
client(rq, r) == [rq EXCEPT ![r] = enter(@)]

\* The getItem call the request interceptor of r issues, if it issues one.
clientOps(r) ==
  IF req[r].url \notin ResourceUrls THEN <<>> ELSE <<GetOp(ACCESS_TOKEN, r, "attach")>>

\* Mutant of replayOps: the continuations run last in, first out.
replayOpsReversed(q) ==
  [i \in 1..Len(q) |-> GetOp(ACCESS_TOKEN, q[Len(q) + 1 - i], "attach")]

RECURSIVE replayOps(_)
\* The getItem calls of the request interceptors the resolved continuations enter.
replayOps(q) == IF q = <<>> THEN <<>> ELSE clientOps(Head(q)) \o replayOps(Tail(q))

\* Mutant of IsRefreshable: the _retry marker is not consulted.
IsRefreshableIgnoringRetry(status, retry) == status = HTTP_UNAUTHORIZED

\* Mutant of IsRefreshable: every error status is taken for an expired token.
IsRefreshableAnyError(status, retry) == status >= HTTP_BAD_REQUEST /\ ~retry

\* Mutant of IsRefreshable: the 401 branch is never taken.
IsRefreshableNever(status, retry) == FALSE

\* status === 401 && originalRequest && !originalRequest._retry
IsRefreshable(status, retry) == status = HTTP_UNAUTHORIZED /\ ~retry

\* Mutant of ShouldQueue: every 401 is parked, none starts a cycle.
ShouldQueueAlways == TRUE

\* Mutant of ShouldQueue: the flag is not consulted, every 401 starts a cycle.
ShouldQueueNever == FALSE

\* if (isRefreshing)
ShouldQueue == isRefreshing

\* Mutant of BearerAfterRefresh: the original request keeps its old header.
BearerAfterRefreshKeepsOld(old, accessToken) == old

\* originalRequest.headers.Authorization = `Bearer ${accessToken}`
BearerAfterRefresh(old, accessToken) == accessToken

\* Mutant of ClearedKeys: the cached user is not removed.
ClearedKeysWithoutUser == <<ACCESS_TOKEN, REFRESH_TOKEN, "isLoggedIn">>

\* The keys the failure path removes, in the order of its removeItem calls.
ClearedKeys == <<ACCESS_TOKEN, REFRESH_TOKEN, "user", "isLoggedIn">>

\* Mutant of sessionExpiredError: the refresh error is passed on as it came.
sessionExpiredErrorRaw(data, refreshError) == refreshError

\* The error the catch block rejects the original request with: a new
\* UnauthorizedError that keeps the 401 body and the refresh error as its cause.
sessionExpiredError(data, refreshError) ==
  UnauthorizedError("Session expired. Please login again.", data, refreshError.name)

\* Positions of a request that is running a refresh cycle it started.
CyclePcs == {"readRefresh", "refreshing", "persist", "clearing"}

\* Mutant of refreshFailed: the catch block does not reject the queue.
refreshFailedKeepsQueue(r, refreshError, rest) ==
  /\ req' = [req EXCEPT
               ![r].pc = "clearing", ![r].pend = Len(ClearedKeys), ![r].cause = refreshError]
  /\ storeQ' = rest \o [i \in 1..Len(ClearedKeys) |-> RemoveOp(ClearedKeys[i], r, "clearing")]
  /\ UNCHANGED <<isRefreshing, failedQueue>>

\* The catch block up to its await: reject the queue with refreshError, then
\* issue the four removeItem calls.  isRefreshing stays set until finally.
refreshFailed(r, refreshError, rest) ==
  /\ req' = [processQueue(req, failedQueue, refreshError, 0, r) EXCEPT
               ![r].pc = "clearing", ![r].pend = Len(ClearedKeys), ![r].cause = refreshError]
  /\ failedQueue' = <<>>
  /\ storeQ' = rest \o [i \in 1..Len(ClearedKeys) |-> RemoveOp(ClearedKeys[i], r, "clearing")]
  /\ UNCHANGED isRefreshing

\* ----------------------------------------------------------------- actions
InitPipeline ==
  /\ isRefreshing = FALSE
  /\ failedQueue = <<>>
  /\ \E rt \in {0, InitialToken} :
       store = [k \in StoreKeys |->
                  IF k = REFRESH_TOKEN THEN rt
                  ELSE IF k = ACCESS_TOKEN THEN InitialToken ELSE 1]
  /\ storeQ = <<>>
  /\ req = [r \in BurstReqs |-> NewRequest]
  /\ session = [isAuthenticated |-> TRUE, user |-> 1]
  /\ refreshCalls = 0
  /\ issued = 0
  /\ storeFails = 0
  /\ late401 = FALSE
  /\ noRefreshToken = FALSE
  /\ onlyStale401 = TRUE

\* AuthContext once the check of the stored session has ended, no mutation
\* hook running.
CtxIdle ==
  [pc |-> "idle", pend |-> 0, gen |-> 0, isLoggedIn |-> 0, storedUser |-> 0, authToken |-> 0]
NoHook == [pc |-> "none", pend |-> 0]

ProviderSettled ==
  /\ isLoading = FALSE
  /\ ctx = [c \in {"checkAuth", "login", "logout"} |-> CtxIdle]
  /\ hook = [r \in BurstReqs |-> NoHook]
  /\ ops = 0

NoFetch == [kind |-> "none", state |-> "idle", failureCount |-> 0, error |-> NoError]

\* Bookkeeping of the cached item of the items hooks before any update.
NoUpdate == [pc |-> "idle", failureCount |-> 0, previousItem |-> [cached |-> FALSE, title |-> 0, body |-> 0, updatedAt |-> 0]]

QueryLayerIdle ==
  /\ retryer = NoFetch
  /\ items = [detail |-> [cached |-> FALSE, title |-> 0, body |-> 0, updatedAt |-> 0],
              original |-> [cached |-> FALSE, title |-> 0, body |-> 0, updatedAt |-> 0],
              upd |-> [m \in 1..MaxUpdates |-> NoUpdate],
              detailInvalidations |-> 0, listInvalidations |-> 0]

Init == InitPipeline /\ probe = NoProbe /\ ProviderSettled /\ QueryLayerIdle

\* A caller issues a request on apiClient.  The requests are interchangeable,
\* so they are numbered in the order they are issued.
Issue(r, u) ==
  /\ req[r].pc = "new"
  /\ \A x \in BurstReqs : x < r => req[x].pc # "new"
  /\ req' = client([req EXCEPT ![r].url = u], r)
  /\ storeQ' = storeQ \o (IF u \notin ResourceUrls THEN <<>>
                           ELSE <<GetOp(ACCESS_TOKEN, r, "attach")>>)
  /\ UNCHANGED <<isRefreshing, failedQueue, store, session, refreshCalls, issued,
                 storeFails, late401, noRefreshToken, onlyStale401>>
  /\ UNCHANGED <<probe, providerVars, queryVars>>

\* AsyncStorage serves the call at the head of its queue; okk = FALSE is a call
\* that rejects.
Serve(tag, okk) ==
  /\ storeQ # <<>>
  /\ Head(storeQ).tag = tag
  /\ okk \/ storeFails < MaxStoreFail
  /\ store' = IF okk THEN ApplyOp(store, Head(storeQ)) ELSE store
  /\ storeFails' = IF okk THEN storeFails ELSE storeFails + 1

\* Tags of the storage calls of the AuthContext operations, and the operation
\* of each.
CtxTags == {"check", "ctxStore", "ctxClear"}
CtxOf(tag) == IF tag = "check" THEN "checkAuth" ELSE IF tag = "ctxStore" THEN "login" ELSE "logout"

\* Tags of the storage calls of the mutation hooks.
HookTags == {"loginStore", "logoutClear", "logoutClearAgain", "updateStore"}

\* The call at the head of the queue is still awaited by the code that made it.
Awaited(tag) ==
  LET o == Head(storeQ)
  IN IF tag \in CtxTags THEN ctx[CtxOf(tag)].pc = tag /\ ctx[CtxOf(tag)].gen = o.req
     ELSE IF tag \in HookTags THEN hook[o.req].pc = tag
     ELSE req[o.req].pc = tag

NoRefreshToken == "No refresh token available"

\* Mutant of HasRefreshToken: the refresh call is made whatever was read.
HasRefreshTokenAlways(refreshToken) == TRUE

\* if (!refreshToken) throw ...: the test the refresh call is guarded by.
HasRefreshToken(refreshToken) == refreshToken # 0

\* Request interceptor after its getItem: attach the token if there is one,
\* then the transport sends the request.
ServeAttach(okk) ==
  /\ Serve("attach", okk)
  /\ Awaited("attach")
  /\ LET r == Head(storeQ).req
         token == getItem(store, ACCESS_TOKEN, okk)
     IN req' = [req EXCEPT ![r].pc = "inflight",
                           ![r].hdr = attachToken(@, token),
                           ![r].sends = @ + 1]
  /\ storeQ' = Tail(storeQ)
  /\ UNCHANGED <<isRefreshing, failedQueue, session, refreshCalls, issued, late401,
                 noRefreshToken, onlyStale401>>
  /\ UNCHANGED <<probe, providerVars, queryVars>>

\* Response interceptor after getItem(REFRESH_TOKEN): throw when there is none,
\* else put the refresh call on the bare axios instance.
ServeReadRefresh(okk) ==
  /\ Serve("readRefresh", okk)
  /\ Awaited("readRefresh")
  /\ LET r == Head(storeQ).req
         refreshToken == getItem(store, REFRESH_TOKEN, okk)
     IN IF ~HasRefreshToken(refreshToken)
        THEN /\ refreshFailed(r, UnauthorizedError(NoRefreshToken, "", ""),
                              Tail(storeQ))
             /\ noRefreshToken' = TRUE
             /\ UNCHANGED refreshCalls
        ELSE /\ req' = [req EXCEPT ![r].pc = "refreshing"]
             /\ refreshCalls' = refreshCalls + 1
             /\ storeQ' = Tail(storeQ)
             /\ UNCHANGED <<isRefreshing, failedQueue, noRefreshToken>>
  /\ UNCHANGED <<session, issued, late401, onlyStale401>>
  /\ UNCHANGED <<probe, providerVars, queryVars>>

\* The refresh call settles: on 2xx issue the two setItem calls, else catch.
RefreshRespond(r, s) ==
  /\ req[r].pc = "refreshing"
  /\ IF s = HTTP_OK
     THEN LET accessToken == InitialToken + issued + 1
          IN /\ req' = [req EXCEPT ![r].pc = "persist", ![r].pend = 2, ![r].tok = accessToken]
             /\ storeQ' = storeQ \o <<SetOp(ACCESS_TOKEN, accessToken, r, "persist"),
                                      SetOp(REFRESH_TOKEN, accessToken, r, "persist")>>
             /\ issued' = issued + 1
             /\ UNCHANGED <<isRefreshing, failedQueue>>
     ELSE /\ refreshFailed(r, AxiosError(s), storeQ)
          /\ UNCHANGED issued
  /\ UNCHANGED <<store, session, refreshCalls, storeFails, late401, noRefreshToken,
                 onlyStale401>>
  /\ UNCHANGED <<probe, providerVars, queryVars>>

\* One setItem of the Promise.all settles.  When both are stored: set the
\* header, release the queue, replay the original request, finally clear the flag.
ServePersist(okk) ==
  /\ Serve("persist", okk)
  /\ Awaited("persist")
  /\ LET r == Head(storeQ).req
         accessToken == req[r].tok
     IN IF ~okk
        THEN refreshFailed(r, StorageError, Tail(storeQ))
        ELSE IF req[r].pend > 1
        THEN /\ req' = [req EXCEPT ![r].pend = @ - 1]
             /\ storeQ' = Tail(storeQ)
             /\ UNCHANGED <<isRefreshing, failedQueue>>
        ELSE /\ req' = client(
                  processQueue(
                    [req EXCEPT ![r].hdr = BearerAfterRefresh(@, accessToken), ![r].pend = 0],
                    failedQueue, NoError, accessToken, r),
                  r)
             /\ storeQ' = Tail(storeQ) \o clientOps(r) \o replayOps(failedQueue)
             /\ failedQueue' = <<>>
             /\ isRefreshing' = FALSE
  /\ UNCHANGED <<session, refreshCalls, issued, late401, noRefreshToken, onlyStale401>>
  /\ UNCHANGED <<probe, providerVars, queryVars>>

\* One removeItem of the failure path's Promise.all settles.  When all are
\* removed the original request is rejected with the session-expired error; a
\* removeItem that rejects is thrown out of the catch block.  finally clears the flag.
ServeClearing(okk) ==
  /\ Serve("clearing", okk)
  /\ Awaited("clearing")
  /\ LET r == Head(storeQ).req
     IN IF ~okk
        THEN /\ req' = [req EXCEPT ![r] = settle([@ EXCEPT !.err = StorageError])]
             /\ isRefreshing' = FALSE
        ELSE IF req[r].pend > 1
        THEN /\ req' = [req EXCEPT ![r].pend = @ - 1]
             /\ UNCHANGED isRefreshing
        ELSE /\ req' = [req EXCEPT ![r] = settle([@ EXCEPT !.err =
                          sessionExpiredError(req[r].body, req[r].cause)])]
             /\ isRefreshing' = FALSE
  /\ storeQ' = Tail(storeQ)
  /\ UNCHANGED <<failedQueue, session, refreshCalls, issued, late401, noRefreshToken,
                 onlyStale401>>
  /\ UNCHANGED <<probe, providerVars, queryVars>>

\* A storage call nobody awaits any more (its Promise.all has already rejected).
ServeOrphan(okk) ==
  /\ storeQ # <<>>
  /\ Serve(Head(storeQ).tag, okk)
  /\ ~Awaited(Head(storeQ).tag)
  /\ storeQ' = Tail(storeQ)
  /\ UNCHANGED <<isRefreshing, failedQueue, req, session, refreshCalls, issued, late401,
                 noRefreshToken, onlyStale401>>
  /\ UNCHANGED <<probe, providerVars, queryVars>>

\* The transport answers caller request r with status s and body message b:
\* the response interceptor runs up to its first await.
Respond(r, s, b) ==
  /\ req[r].pc = "inflight"
  /\ s = HTTP_OK => b = ""
  /\ IsRefreshable(s, req[r].retry) => req[r].sends < MaxSends
  /\ onlyStale401' = (onlyStale401 /\ (s = HTTP_UNAUTHORIZED => req[r].hdr = InitialToken))
  /\ IF s = HTTP_OK
     THEN /\ req' = [req EXCEPT ![r] = settle([@ EXCEPT !.status = s, !.body = b])]
          /\ UNCHANGED <<isRefreshing, failedQueue, storeQ, late401>>
     ELSE IF IsRefreshable(s, req[r].retry)
     THEN IF ShouldQueue
          THEN /\ req' = [req EXCEPT ![r].pc = "queued", ![r].status = s, ![r].body = b,
                                     ![r].got401 = TRUE]
               /\ failedQueue' = Append(failedQueue, r)
               /\ UNCHANGED <<isRefreshing, storeQ, late401>>
          ELSE /\ req' = [req EXCEPT ![r].pc = "readRefresh", ![r].status = s, ![r].body = b,
                                     ![r].got401 = TRUE, ![r].retry = TRUE]
               /\ isRefreshing' = TRUE
               /\ storeQ' = Append(storeQ, GetOp(REFRESH_TOKEN, r, "readRefresh"))
               /\ late401' = (late401 \/ \E x \in BurstReqs \ {r} :
                                           req[x].retry /\ req[x].pc \notin CyclePcs)
               /\ UNCHANGED failedQueue
     ELSE /\ req' = [req EXCEPT ![r] = settle([@ EXCEPT !.status = s, !.body = b, !.err =
                        createApiError(s, JsOr(b, JsOr(AxiosMessage, "An error occurred")),
                                       b, "AxiosError")])]
          /\ UNCHANGED <<isRefreshing, failedQueue, storeQ, late401>>
  /\ UNCHANGED <<store, session, refreshCalls, issued, storeFails, noRefreshToken>>
  /\ UNCHANGED <<probe, providerVars, queryVars>>

\* Mutant of isTimeout: only error.code is looked at.
isTimeoutByCodeOnly(f) == f.code = "ECONNABORTED"

\* error.code === 'ECONNABORTED' || error.message.includes('timeout')
isTimeout(f) == f.code = "ECONNABORTED" \/ includes(f.chars, TIMEOUT)

\* The AxiosError of a request that got no response.
NoResponseError(f) ==
  [name |-> "AxiosError", statusCode |-> 0, message |-> f.message, response |-> "",
   originalError |-> ""]

\* What the response interceptor rejects a request without response with.
networkError(f) ==
  IF isTimeout(f)
  THEN TimeoutError(formatErrorMessage(NoResponseError(f)), "AxiosError")
  ELSE NetworkError(formatErrorMessage(NoResponseError(f)), "AxiosError")

\* The transport fails caller request r without a response (failure f): the
\* response interceptor rejects with a TimeoutError or a NetworkError.
NoResponse(r, f) ==
  /\ req[r].pc = "inflight"
  /\ req' = [req EXCEPT ![r] = settle([@ EXCEPT !.status = 0, !.body = "",
                                                !.err = networkError(f)])]
  /\ UNCHANGED <<isRefreshing, failedQueue, store, storeQ, session, refreshCalls, issued,
                 storeFails, late401, noRefreshToken, onlyStale401>>
  /\ UNCHANGED <<probe, providerVars, queryVars>>

Next ==
  \/ \E r \in Reqs, u \in DataUrls : Issue(r, u)
  \/ \E r \in Reqs, a \in Answers : Respond(r, a[1], a[2])
  \/ \E r \in Reqs, s \in Statuses : RefreshRespond(r, s)
  \/ \E okk \in BOOLEAN : ServeAttach(okk)
  \/ \E okk \in BOOLEAN : ServeReadRefresh(okk)
  \/ \E okk \in BOOLEAN : ServePersist(okk)
  \/ \E okk \in BOOLEAN : ServeClearing(okk)
  \/ \E okk \in BOOLEAN : ServeOrphan(okk)

Spec == Init /\ [][Next]_vars

\* The same pipeline over a storage that does not fail, with requests to auth
\* endpoints as well and with a transport that may fail without a response.
NextTransport ==
  \/ \E r \in Reqs, u \in DataUrls \cup {v \in 1..Len(Urls) : Urls[v] = AUTH_LOGIN} :
       Issue(r, u)
  \/ \E r \in Reqs, s \in Statuses \cup {HTTP_NOT_FOUND} :
       Respond(r, s, IF s = HTTP_OK THEN "" ELSE "denied")
  \/ \E r \in Reqs, f \in TransportFailures : NoResponse(r, f)
  \/ \E r \in Reqs, s \in {HTTP_OK, HTTP_UNAUTHORIZED} : RefreshRespond(r, s)
  \/ ServeAttach(TRUE)
  \/ ServeReadRefresh(TRUE)
  \/ ServePersist(TRUE)
  \/ ServeClearing(TRUE)

SpecTransport == Init /\ [][NextTransport]_vars

\* Requests to the auth endpoints only (a login or signup being submitted), over
\* a storage that may fail.  Their request interceptor awaits nothing.
NextLogin ==
  \/ \E r \in Reqs, u \in (1..Len(Urls)) \ ResourceUrls : Issue(r, u)
  \/ \E r \in Reqs, s \in {HTTP_OK, HTTP_UNAUTHORIZED} :
       Respond(r, s, IF s = HTTP_OK THEN "" ELSE "denied")
  \/ \E r \in Reqs, s \in {HTTP_OK, HTTP_UNAUTHORIZED} : RefreshRespond(r, s)
  \/ \E okk \in BOOLEAN : ServeReadRefresh(okk)
  \/ \E okk \in BOOLEAN : ServePersist(okk)
  \/ \E okk \in BOOLEAN : ServeClearing(okk)
  \/ \E okk \in BOOLEAN : ServeOrphan(okk)

SpecLogin == Init /\ [][NextLogin]_vars

\* A burst on an expired access token: NReq + 1 requests to resource endpoints,
\* each answered 401 on its first dispatch and 200 on a replay; the storage does
\* not fail and the refresh call, when one is made, succeeds.
NextBurst ==
  \/ \E r \in BurstReqs, u \in DataUrls : Issue(r, u)
  \/ \E r \in BurstReqs :
       \/ req[r].sends = 1 /\ Respond(r, HTTP_UNAUTHORIZED, "denied")
       \/ req[r].sends > 1 /\ Respond(r, HTTP_OK, "")
  \/ \E r \in BurstReqs : RefreshRespond(r, HTTP_OK)
  \/ ServeAttach(TRUE)
  \/ ServeReadRefresh(TRUE)
  \/ ServePersist(TRUE)
  \/ ServeClearing(TRUE)

SpecBurst == Init /\ [][NextBurst]_vars

\* ------------------------------------------------- services/errors, called
\* Arguments createApiError is called with, and values formatErrorMessage is
\* called with.
StatusCodes ==
  {200, 204, 302, 400, 401, 402, 403, 404, 405, 408, 409, 410, 418, 422, 429, 499,
   500, 501, 502, 503, 504, 599}
Messages == {"", "not here"}
Causes == {"", "AxiosError"}

CreateArgs ==
  { [name |-> "args", statusCode |-> c, message |-> m, response |-> b, originalError |-> e] :
      c \in StatusCodes, m \in Messages, b \in BodyMsgs, e \in Causes }

FormatValues ==
  { Value(n, m, b) : n \in ApiErrorNames, m \in Messages, b \in BodyMsgs }
    \cup { Value("Error", m, "") : m \in Messages }
    \cup { Value("AxiosError", m, "") : m \in Messages }
    \cup { Value("null", "", ""), Value("undefined", "", ""),
           Value("string", "not here", ""), Value("object", "not here", "") }

pipelineVars ==
  <<isRefreshing, failedQueue, store, storeQ, req, session, refreshCalls, issued,
    storeFails, late401, noRefreshToken, onlyStale401>>

InitErrors ==
  /\ InitPipeline
  /\ ProviderSettled
  /\ QueryLayerIdle
  /\ \E a \in CreateArgs \cup FormatValues : probe = [NoProbe EXCEPT !.fn = "call", !.arg = a]

\* createApiError(statusCode, message, response, originalError) is called.
CallCreateApiError ==
  /\ probe.fn = "call" /\ probe.arg.name = "args"
  /\ probe' = [probe EXCEPT !.fn = "createApiError",
                            !.out = createApiError(probe.arg.statusCode, probe.arg.message,
                                                   probe.arg.response, probe.arg.originalError)]
  /\ UNCHANGED <<pipelineVars, providerVars, queryVars>>

\* formatErrorMessage is called, with the value given or with the error
\* createApiError has returned.
CallFormatErrorMessage ==
  /\ \/ probe.fn = "call" /\ probe.arg.name # "args"
        /\ probe' = [probe EXCEPT !.fn = "formatErrorMessage", !.out = probe.arg,
                                  !.text = formatErrorMessage(probe.arg)]
     \/ probe.fn = "createApiError"
        /\ probe' = [probe EXCEPT !.fn = "formatErrorMessage",
                                  !.text = formatErrorMessage(probe.out)]
  /\ UNCHANGED <<pipelineVars, providerVars, queryVars>>

NextErrors == CallCreateApiError \/ CallFormatErrorMessage

SpecErrors == InitErrors /\ [][NextErrors]_vars

\* ------------------------------------------------ contexts/AuthContext.tsx
\* What neither the provider nor the mutation hooks of the session touch.
elsewhere ==
  <<refreshCalls, issued, late401, noRefreshToken, onlyStale401, probe, retryer, items>>

Session(isAuthenticated, user) == [isAuthenticated |-> isAuthenticated, user |-> user]

\* The three reads of checkAuth, in the order of its Promise.all.
CheckedKeys == <<"isLoggedIn", "user", ACCESS_TOKEN>>

\* The position of one call of checkAuth (generation gen) and its reads.
checkAuthStarted(gen) ==
  [CtxIdle EXCEPT !.pc = "check", !.pend = Len(CheckedKeys), !.gen = gen]

checkAuthOps(gen) == [i \in 1..Len(CheckedKeys) |-> GetOp(CheckedKeys[i], gen, "check")]

\* checkAuth(): setIsLoading(true), then the three reads are issued.
checkAuth ==
  /\ ctx["checkAuth"].pc = "idle"
  /\ ops < MaxOps
  /\ ops' = ops + 1
  /\ isLoading' = TRUE
  /\ ctx' = [ctx EXCEPT !["checkAuth"] = checkAuthStarted(ops + 1)]
  /\ storeQ' = storeQ \o checkAuthOps(ops + 1)
  /\ UNCHANGED <<isRefreshing, failedQueue, store, req, session, storeFails, hook>>
  /\ UNCHANGED elsewhere

\* Mutant of storedSession: the access token is not looked at.
storedSessionIgnoringToken(isLoggedIn, storedUser, authToken) ==
  IF isLoggedIn # 0 /\ storedUser # 0 THEN Session(TRUE, storedUser) ELSE Session(FALSE, 0)

\* if (isLoggedIn && storedUser && authToken) ... else ...: what checkAuth sets.
storedSession(isLoggedIn, storedUser, authToken) ==
  IF isLoggedIn # 0 /\ storedUser # 0 /\ authToken # 0
  THEN Session(TRUE, storedUser)
  ELSE Session(FALSE, 0)

\* One read of checkAuth settles (getItem and getBoolean give null and false
\* for a read that fails).  After the last one the session is set and
\* isLoading cleared.
ServeCheck(okk) ==
  /\ Serve("check", okk)
  /\ Awaited("check")
  /\ LET o == Head(storeQ)
         v == getItem(store, o.key, okk)
         c == [ctx["checkAuth"] EXCEPT
                 !.pend = @ - 1,
                 !.isLoggedIn = IF o.key = "isLoggedIn" THEN v ELSE @,
                 !.storedUser = IF o.key = "user" THEN v ELSE @,
                 !.authToken = IF o.key = ACCESS_TOKEN THEN v ELSE @]
     IN IF c.pend > 0
        THEN /\ ctx' = [ctx EXCEPT !["checkAuth"] = c]
             /\ UNCHANGED <<session, isLoading>>
        ELSE /\ ctx' = [ctx EXCEPT !["checkAuth"] = [c EXCEPT !.pc = "idle"]]
             /\ session' = storedSession(c.isLoggedIn, c.storedUser, c.authToken)
             /\ isLoading' = FALSE
  /\ storeQ' = Tail(storeQ)
  /\ UNCHANGED <<isRefreshing, failedQueue, req, hook, ops>>
  /\ UNCHANGED elsewhere

\* login and signup of the context store a mock user and token with one multiSet.
storeMockSession ==
  /\ ctx["login"].pc = "idle"
  /\ ops < MaxOps
  /\ ops' = ops + 1
  /\ ctx' = [ctx EXCEPT !["login"] = [CtxIdle EXCEPT !.pc = "ctxStore", !.pend = 1,
                                                      !.gen = ops + 1]]
  /\ storeQ' = Append(storeQ, MultiSetOp("user+authToken+isLoggedIn", MockToken, ops + 1,
                                         "ctxStore"))
  /\ UNCHANGED <<isRefreshing, failedQueue, store, req, session, storeFails, hook, isLoading>>
  /\ UNCHANGED elsewhere

\* login(email, password)
login == storeMockSession

\* signup(email, password, name)
signup == storeMockSession

\* The multiSet of login or signup settles: the session is set, or the error
\* is thrown to the caller.
ServeContextStore(okk) ==
  /\ Serve("ctxStore", okk)
  /\ Awaited("ctxStore")
  /\ ctx' = [ctx EXCEPT !["login"].pc = "idle", !["login"].pend = 0]
  /\ session' = IF okk THEN Session(TRUE, MockToken) ELSE session
  /\ storeQ' = Tail(storeQ)
  /\ UNCHANGED <<isRefreshing, failedQueue, req, hook, ops, isLoading>>
  /\ UNCHANGED elsewhere

\* The keys logout of the context removes.
ContextClearedKeys == <<"user", ACCESS_TOKEN, "isLoggedIn">>

\* logout(): the three removals of its Promise.all are issued.
logout ==
  /\ ctx["logout"].pc = "idle"
  /\ ops < MaxOps
  /\ ops' = ops + 1
  /\ ctx' = [ctx EXCEPT !["logout"] = [CtxIdle EXCEPT !.pc = "ctxClear",
                                                       !.pend = Len(ContextClearedKeys),
                                                       !.gen = ops + 1]]
  /\ storeQ' = storeQ \o [i \in 1..Len(ContextClearedKeys) |->
                            RemoveOp(ContextClearedKeys[i], ops + 1, "ctxClear")]
  /\ UNCHANGED <<isRefreshing, failedQueue, store, req, session, storeFails, hook, isLoading>>
  /\ UNCHANGED elsewhere

\* One removal of logout settles: after the last one the session is reset; a
\* removal that rejects is thrown to the caller.
ServeContextClear(okk) ==
  /\ Serve("ctxClear", okk)
  /\ Awaited("ctxClear")
  /\ LET c == ctx["logout"]
     IN IF ~okk
        THEN /\ ctx' = [ctx EXCEPT !["logout"].pc = "idle", !["logout"].pend = 0]
             /\ UNCHANGED session
        ELSE IF c.pend > 1
        THEN /\ ctx' = [ctx EXCEPT !["logout"].pend = @ - 1]
             /\ UNCHANGED session
        ELSE /\ ctx' = [ctx EXCEPT !["logout"].pc = "idle", !["logout"].pend = 0]
             /\ session' = Session(FALSE, 0)
  /\ storeQ' = Tail(storeQ)
  /\ UNCHANGED <<isRefreshing, failedQueue, req, hook, ops, isLoading>>
  /\ UNCHANGED elsewhere

\* ------------------------------------------------ services/hooks: mutations
\* The request of a mutation has settled and its callbacks have not run yet.
Settled(r) == req[r].pc = "done" /\ hook[r].pc = "none"

HookPending == \E r \in BurstReqs : Settled(r)

\* onSuccess of useLogin and useSignup: the multiSet of the four pairs is
\* issued; a request that failed only reaches onError.
credentialsSettled(r, url) ==
  /\ Settled(r)
  /\ Urls[req[r].url] = url
  /\ IF req[r].err = NoError
     THEN /\ hook' = [hook EXCEPT ![r] = [pc |-> "loginStore", pend |-> 1]]
          /\ storeQ' = Append(storeQ, MultiSetOp("user+authToken+refreshToken+isLoggedIn",
                                                 LoginToken, r, "loginStore"))
     ELSE /\ hook' = [hook EXCEPT ![r].pc = "failed"]
          /\ UNCHANGED storeQ
  /\ UNCHANGED <<isRefreshing, failedQueue, store, req, session, storeFails, ctx, ops,
                 isLoading>>
  /\ UNCHANGED elsewhere

useLogin(r) == credentialsSettled(r, AUTH_LOGIN)

useSignup(r) == credentialsSettled(r, AUTH_SIGNUP)

\* The multiSet of onSuccess settles: setIsAuthenticated(true), setUser(data.user);
\* a multiSet that rejects ends the mutation in onError.
ServeLoginStore(okk) ==
  /\ Serve("loginStore", okk)
  /\ Awaited("loginStore")
  /\ LET r == Head(storeQ).req
     IN hook' = [hook EXCEPT ![r] = [pc |-> IF okk THEN "finished" ELSE "failed", pend |-> 0]]
  /\ session' = IF okk THEN Session(TRUE, LoginToken) ELSE session
  /\ storeQ' = Tail(storeQ)
  /\ UNCHANGED <<isRefreshing, failedQueue, req, ctx, ops, isLoading>>
  /\ UNCHANGED elsewhere

\* The keys useLogout removes, in the order of its Promise.all.
LogoutClearedKeys == <<"user", ACCESS_TOKEN, REFRESH_TOKEN, "isLoggedIn">>

\* The four removals of useLogout.
logoutOps(r, tag) ==
  [i \in 1..Len(LogoutClearedKeys) |-> RemoveOp(LogoutClearedKeys[i], r, tag)]

\* useLogout: mutationFn swallows the error of the logout endpoint, so
\* onSuccess runs however the request settled and issues the four removals.
useLogout(r) ==
  /\ Settled(r)
  /\ Urls[req[r].url] = AUTH_LOGOUT
  /\ hook' = [hook EXCEPT ![r] = [pc |-> "logoutClear", pend |-> Len(LogoutClearedKeys)]]
  /\ storeQ' = storeQ \o logoutOps(r, "logoutClear")
  /\ UNCHANGED <<isRefreshing, failedQueue, store, req, session, storeFails, ctx, ops,
                 isLoading>>
  /\ UNCHANGED elsewhere

\* One removal of onSuccess settles: after the last one the session is reset.
\* A removal that rejects makes onSuccess throw, so the mutation runs onError,
\* which issues the four removals again.
ServeLogoutClear(okk) ==
  /\ Serve("logoutClear", okk)
  /\ Awaited("logoutClear")
  /\ LET r == Head(storeQ).req
     IN IF ~okk
        THEN /\ hook' = [hook EXCEPT ![r] = [pc |-> "logoutClearAgain",
                                             pend |-> Len(LogoutClearedKeys)]]
             /\ storeQ' = Tail(storeQ) \o logoutOps(r, "logoutClearAgain")
             /\ UNCHANGED session
        ELSE IF hook[r].pend > 1
        THEN /\ hook' = [hook EXCEPT ![r].pend = @ - 1]
             /\ storeQ' = Tail(storeQ)
             /\ UNCHANGED session
        ELSE /\ hook' = [hook EXCEPT ![r] = [pc |-> "finished", pend |-> 0]]
             /\ storeQ' = Tail(storeQ)
             /\ session' = Session(FALSE, 0)
  /\ UNCHANGED <<isRefreshing, failedQueue, req, ctx, ops, isLoading>>
  /\ UNCHANGED elsewhere

\* One removal of onError settles: after the last one the session is reset; a
\* removal that rejects ends the mutation.
ServeLogoutClearAgain(okk) ==
  /\ Serve("logoutClearAgain", okk)
  /\ Awaited("logoutClearAgain")
  /\ LET r == Head(storeQ).req
     IN IF ~okk
        THEN /\ hook' = [hook EXCEPT ![r] = [pc |-> "failed", pend |-> 0]]
             /\ UNCHANGED session
        ELSE IF hook[r].pend > 1
        THEN /\ hook' = [hook EXCEPT ![r].pend = @ - 1]
             /\ UNCHANGED session
        ELSE /\ hook' = [hook EXCEPT ![r] = [pc |-> "finished", pend |-> 0]]
             /\ session' = Session(FALSE, 0)
  /\ storeQ' = Tail(storeQ)
  /\ UNCHANGED <<isRefreshing, failedQueue, req, ctx, ops, isLoading>>
  /\ UNCHANGED elsewhere

\* onSuccess of useUpdateUser: the updated user is stored; a request that
\* failed only reaches onError.
useUpdateUser(r) ==
  /\ Settled(r)
  /\ Urls[req[r].url] = USERS_ME
  /\ IF req[r].err = NoError
     THEN /\ hook' = [hook EXCEPT ![r] = [pc |-> "updateStore", pend |-> 1]]
          /\ storeQ' = Append(storeQ, SetOp("user", UpdatedUser, r, "updateStore"))
     ELSE /\ hook' = [hook EXCEPT ![r].pc = "failed"]
          /\ UNCHANGED storeQ
  /\ UNCHANGED <<isRefreshing, failedQueue, store, req, session, storeFails, ctx, ops,
                 isLoading>>
  /\ UNCHANGED elsewhere

\* setUser(updatedUser): isAuthenticated is left as it is.
updatedSession(s, updatedUser) == [s EXCEPT !.user = updatedUser]

\* The setItem of onSuccess settles: setUser(updatedUser); a setItem that
\* rejects ends the mutation in onError.
ServeUpdateStore(okk) ==
  /\ Serve("updateStore", okk)
  /\ Awaited("updateStore")
  /\ LET r == Head(storeQ).req
     IN hook' = [hook EXCEPT ![r] = [pc |-> IF okk THEN "finished" ELSE "failed", pend |-> 0]]
  /\ session' = IF okk THEN updatedSession(session, UpdatedUser) ELSE session
  /\ storeQ' = Tail(storeQ)
  /\ UNCHANGED <<isRefreshing, failedQueue, req, ctx, ops, isLoading>>
  /\ UNCHANGED elsewhere

\* The provider has just mounted: nobody is authenticated, isLoading is set and
\* the mount effect has called checkAuth.  The store is empty or holds the
\* session of an earlier run.
InitSession ==
  /\ isRefreshing = FALSE
  /\ failedQueue = <<>>
  /\ \E v \in {0, InitialToken} : store = [k \in StoreKeys |-> v]
  /\ storeQ = checkAuthOps(0)
  /\ req = [r \in BurstReqs |-> NewRequest]
  /\ session = Session(FALSE, 0)
  /\ refreshCalls = 0
  /\ issued = 0
  /\ storeFails = 0
  /\ late401 = FALSE
  /\ noRefreshToken = FALSE
  /\ onlyStale401 = TRUE
  /\ probe = NoProbe
  /\ isLoading = TRUE
  /\ ctx = [c \in {"checkAuth", "login", "logout"} |->
              IF c = "checkAuth" THEN checkAuthStarted(0) ELSE CtxIdle]
  /\ hook = [r \in BurstReqs |-> NoHook]
  /\ ops = 0
  /\ QueryLayerIdle

\* The provider alone: its mount and the operations it exposes, over a
\* storage that may fail.
NextProvider ==
  \/ checkAuth
  \/ login
  \/ signup
  \/ logout
  \/ \E okk \in BOOLEAN : ServeCheck(okk)
  \/ \E okk \in BOOLEAN : ServeContextStore(okk)
  \/ \E okk \in BOOLEAN : ServeContextClear(okk)
  \/ \E okk \in BOOLEAN : ServeOrphan(okk)

SpecProvider == InitSession /\ [][NextProvider]_vars

\* The provider has settled: on an empty store nobody is authenticated, on the
\* stored session of a login its user is.
InitHooks ==
  /\ isRefreshing = FALSE
  /\ failedQueue = <<>>
  /\ \E v \in {0, InitialToken} :
       /\ store = [k \in StoreKeys |-> v]
       /\ session = storedSession(v, v, v)
  /\ storeQ = <<>>
  /\ req = [r \in BurstReqs |-> NewRequest]
  /\ refreshCalls = 0
  /\ issued = 0
  /\ storeFails = 0
  /\ late401 = FALSE
  /\ noRefreshToken = FALSE
  /\ onlyStale401 = TRUE
  /\ probe = NoProbe
  /\ ProviderSettled
  /\ QueryLayerIdle

\* The mutation hooks once the provider has settled, every request being the
\* request of the hook its URL belongs to.  The callbacks of a mutation run as
\* soon as its request has settled, before anything else happens.  The server
\* accepts every access token, and answers 200 to a request without one only
\* on the login and signup endpoints.
NextHooks ==
  \/ \E r \in Reqs : useLogin(r)
  \/ \E r \in Reqs : useSignup(r)
  \/ \E r \in Reqs : useLogout(r)
  \/ \E r \in Reqs : useUpdateUser(r)
  \/ /\ ~HookPending
     /\ \/ \E r \in Reqs, u \in 1..Len(Urls) : Issue(r, u)
        \/ \E r \in Reqs, a \in {b \in Answers : b[1] # HTTP_UNAUTHORIZED} :
             /\ a[1] = HTTP_OK => (req[r].url \notin ResourceUrls \/ req[r].hdr # 0)
             /\ Respond(r, a[1], a[2])
        \/ \E okk \in BOOLEAN : ServeLoginStore(okk)
        \/ \E okk \in BOOLEAN : ServeLogoutClear(okk)
        \/ \E okk \in BOOLEAN : ServeLogoutClearAgain(okk)
        \/ \E okk \in BOOLEAN : ServeUpdateStore(okk)
        \/ \E okk \in BOOLEAN : ServeAttach(okk)
        \/ \E okk \in BOOLEAN : ServeOrphan(okk)

SpecHooks == InitHooks /\ [][NextHooks]_vars

\* The request of a useLogout mutation has settled and its callbacks have not
\* run yet.
LogoutPending == \E r \in BurstReqs : Settled(r) /\ Urls[req[r].url] = AUTH_LOGOUT

\* useLogout next to plain requests to a data endpoint, with refresh cycles
\* whose refresh call succeeds, over a storage that does not fail.
NextRace ==
  \/ \E r \in Reqs : useLogout(r)
  \/ /\ ~LogoutPending
     /\ \/ \E r \in Reqs, u \in DataUrls \cup {v \in 1..Len(Urls) : Urls[v] = AUTH_LOGOUT} :
             Issue(r, u)
        \/ \E r \in Reqs, a \in {b \in Answers : b[1] # HTTP_INTERNAL_SERVER_ERROR} :
             Respond(r, a[1], a[2])
        \/ \E r \in Reqs : RefreshRespond(r, HTTP_OK)
        \/ ServeAttach(TRUE)
        \/ ServeReadRefresh(TRUE)
        \/ ServePersist(TRUE)
        \/ ServeClearing(TRUE)
        \/ ServeLogoutClear(TRUE)

SpecRace == Init /\ [][NextRace]_vars

\* ---------------------------------------- services/queryClient.tsx: retries
\* API_CONFIG.maxRetries, and the number given as mutations.retry.
maxRetries == 3
mutationsRetryCount == 1

\* The statuses a failed attempt was answered with, and the errors a failed
\* attempt rejects with: the mapped error of a status, a network or timeout
\* error, or the raw Error of a storage call.
RetryStatuses == {400, 401, 403, 404, 409, 422, 429, 500, 502, 503}

RetryErrors ==
  {createApiError(s, "", "", "AxiosError") : s \in RetryStatuses}
    \cup {NetworkError("", "AxiosError"), TimeoutError("", "AxiosError"), StorageError}

\* 'statusCode' in error: the classes of services/errors carry one, a plain
\* Error does not.
hasStatusCode(error) == error.name \in ApiErrorNames

\* defaultOptions.queries.retry
queriesRetry(failureCount, error) ==
  IF hasStatusCode(error) /\ error.statusCode >= 400 /\ error.statusCode < 500
  THEN FALSE
  ELSE failureCount < maxRetries

\* defaultOptions.mutations.retry: a number, so the attempt is repeated while
\* the failure count is below it.
mutationsRetry(failureCount, error) == failureCount < mutationsRetryCount

shouldRetry(kind, failureCount, error) ==
  IF kind = "query" THEN queriesRetry(failureCount, error)
  ELSE mutationsRetry(failureCount, error)

\* A query or a mutation with the default options starts its first attempt.
fetch(kind) ==
  /\ retryer.state = "idle"
  /\ retryer' = [NoFetch EXCEPT !.kind = kind, !.state = "fetching"]
  /\ UNCHANGED <<pipelineVars, probe, providerVars, items>>

\* The attempt in progress succeeds.
fetchResolves ==
  /\ retryer.state = "fetching"
  /\ retryer' = [retryer EXCEPT !.state = "resolved"]
  /\ UNCHANGED <<pipelineVars, probe, providerVars, items>>

\* The attempt in progress rejects with error: the retry option decides
\* whether another attempt is made or the error is handed on.
fetchRejects(error) ==
  /\ retryer.state = "fetching"
  /\ retryer' = IF shouldRetry(retryer.kind, retryer.failureCount, error)
                THEN [retryer EXCEPT !.failureCount = @ + 1, !.error = error]
                ELSE [retryer EXCEPT !.state = "rejected", !.error = error]
  /\ UNCHANGED <<pipelineVars, probe, providerVars, items>>

NextRetry ==
  \/ \E kind \in {"query", "mutation"} : fetch(kind)
  \/ fetchResolves
  \/ \E error \in RetryErrors : fetchRejects(error)

SpecRetry == Init /\ [][NextRetry]_vars

\* ------------------------------------- services/hooks: useUpdateItem
\* The cached detail of the item as the detail query fetched it.
FetchedItem == [cached |-> TRUE, title |-> 0, body |-> 0, updatedAt |-> 0]

\* { ...previousItem, ...data, updatedAt: now }, the data of update m changing
\* the title if m is odd and the body if it is even; update m is made at time m.
merged(previousItem, m) ==
  IF m % 2 = 1
  THEN [previousItem EXCEPT !.title = m, !.updatedAt = m]
  ELSE [previousItem EXCEPT !.body = m, !.updatedAt = m]

\* The item detail is cached or not; no update has been called.
InitItems ==
  /\ InitPipeline
  /\ probe = NoProbe
  /\ ProviderSettled
  /\ retryer = NoFetch
  /\ \E d \in {FetchedItem, NoUpdate.previousItem} :
       items = [detail |-> d, original |-> d, upd |-> [m \in 1..MaxUpdates |-> NoUpdate],
                detailInvalidations |-> 0, listInvalidations |-> 0]

\* mutate({id, data}) is called: onMutate starts and awaits cancelQueries.
\* The updates are numbered in the order they are called.
mutate(m) ==
  /\ items.upd[m].pc = "idle"
  /\ \A x \in 1..MaxUpdates : x < m => items.upd[x].pc # "idle"
  /\ items' = [items EXCEPT !.upd[m].pc = "onMutate"]
  /\ UNCHANGED <<pipelineVars, probe, providerVars, retryer>>

\* onMutate after cancelQueries: snapshot the cached item, write the
\* optimistic value if there was one; the PUT request is then sent.
onMutate(m) ==
  /\ items.upd[m].pc = "onMutate"
  /\ items' = [items EXCEPT
                 !.upd[m].pc = "pending",
                 !.upd[m].previousItem = items.detail,
                 !.detail = IF items.detail.cached THEN merged(items.detail, m) ELSE @]
  /\ UNCHANGED <<pipelineVars, probe, providerVars, retryer>>

\* onError: if (context?.previousItem) setQueryData(detail(id), context.previousItem)
rolledBack(detail, previousItem) == IF previousItem.cached THEN previousItem ELSE detail

\* The PUT of update m fails: it is sent again once (mutations.retry), then
\* onError rolls back and onSettled invalidates the detail and the lists.
updateFails(m) ==
  /\ items.upd[m].pc = "pending"
  /\ items' =
       IF mutationsRetry(items.upd[m].failureCount, NoError)
       THEN [items EXCEPT !.upd[m].failureCount = @ + 1]
       ELSE [items EXCEPT
               !.upd[m].pc = "error",
               !.detail = rolledBack(@, items.upd[m].previousItem),
               !.detailInvalidations = @ + 1,
               !.listInvalidations = @ + 1]
  /\ UNCHANGED <<pipelineVars, probe, providerVars, retryer>>

\* The PUT of update m succeeds: onSettled invalidates the detail and the lists.
updateSucceeds(m) ==
  /\ items.upd[m].pc = "pending"
  /\ items' = [items EXCEPT
                 !.upd[m].pc = "success",
                 !.detailInvalidations = @ + 1,
                 !.listInvalidations = @ + 1]
  /\ UNCHANGED <<pipelineVars, probe, providerVars, retryer>>

NextItems ==
  \/ \E m \in 1..MaxUpdates : mutate(m)
  \/ \E m \in 1..MaxUpdates : onMutate(m)
  \/ \E m \in 1..MaxUpdates : updateFails(m)
  \/ \E m \in 1..MaxUpdates : updateSucceeds(m)

SpecItems == InitItems /\ [][NextItems]_vars

TypeOK ==
  /\ isRefreshing \in BOOLEAN
  /\ \A i \in 1..Len(failedQueue) : failedQueue[i] \in BurstReqs
  /\ \A k \in StoreKeys :
       store[k] \in 0..(InitialToken + NReq + 1) \cup {LoginToken, MockToken, UpdatedUser}
  /\ session.isAuthenticated \in BOOLEAN
  /\ isLoading \in BOOLEAN
  /\ ops \in 0..MaxOps
  /\ \A r \in BurstReqs : req[r].sends \in 0..MaxSends /\ req[r].pend \in 0..4
  /\ refreshCalls \in 0..(NReq + 1)
  /\ storeFails \in 0..MaxStoreFail
  /\ retryer.kind \in {"none", "query", "mutation"}
  /\ retryer.state \in {"idle", "fetching", "resolved", "rejected"}
  /\ retryer.failureCount \in 0..maxRetries
  /\ retryer.error \in RetryErrors \cup {NoError}
  /\ \A m \in 1..MaxUpdates :
       /\ items.upd[m].pc \in {"idle", "onMutate", "pending", "error", "success"}
       /\ items.upd[m].failureCount \in 0..mutationsRetryCount
  /\ items.detailInvalidations \in 0..MaxUpdates
  /\ items.listInvalidations \in 0..MaxUpdates


\* ------------------------------------------------------------------ claims
\* The response interceptor has just handled a response with status s for r.
Answered(r, s) ==
  req[r].pc = "inflight" /\ req'[r].pc # "inflight" /\ req'[r].status = s

AllDone == \A r \in Reqs : req[r].pc = "done"

StoreEmpty == \A k \in StoreKeys : store[k] = 0

SessionExpired == "Session expired. Please login again."

\* C1: at every moment at most one refresh call is outstanding, and a
\* not-yet-retried 401 handled while isRefreshing is set is appended to
\* failedQueue without issuing a refresh call or touching the store.
C1_SingleFlight ==
  /\ [](Cardinality({r \in Reqs : req[r].pc = "refreshing"}) <= 1)
  /\ [][\A r \in Reqs :
          (Answered(r, HTTP_UNAUTHORIZED) /\ ~req[r].retry /\ isRefreshing)
            => /\ req'[r].pc = "queued"
               /\ failedQueue' = Append(failedQueue, r)
               /\ refreshCalls' = refreshCalls
               /\ storeQ' = storeQ]_vars

\* C1 witness: a refresh call is outstanding while another request is queued.
C1_Witness ==
  \E o, q \in Reqs :
    req[o].pc = "refreshing" /\ req[q].pc = "queued" /\ InQueue(failedQueue, q)

\* The burst of C2: every request has received a 401, every 401 answered the
\* initial (expired) token, every cycle found a refresh token, and all have
\* settled.
Burst ==
  /\ AllDone
  /\ \A r \in Reqs : req[r].got401
  /\ onlyStale401
  /\ ~noRefreshToken

C3_FailureRejectsAllAlike ==
  \A o, q \in Reqs :
    (req[q].rejBy = o /\ req[o].pc = "done")
      => req[q].err = req[o].err /\ req[q].err.name = "UnauthorizedError"

\* C4: whenever isRefreshing is false, failedQueue is empty.
C4_QueueEmptyWhenIdle == ~isRefreshing => failedQueue = <<>>

\* C5: when a refresh cycle ends (isRefreshing returns to false), no enqueued
\* continuation is left pending.
C5_NoContinuationLeftPending ==
  [][(isRefreshing /\ ~isRefreshing') => \A r \in Reqs : req'[r].pc # "queued"]_vars

\* C6: every caller request reaches the transport at most twice.
C6_AtMostOneReplay == \A r \in Reqs : req[r].sends <= 2

\* C7: a 401 for a request that already carries _retry is rejected with the
\* Unauthorized error createApiError builds, and leaves isRefreshing,
\* failedQueue, the store and the pending storage calls as they were.
C7_RetriedRequestIsRejected ==
  [][\A r \in Reqs :
       (Answered(r, HTTP_UNAUTHORIZED) /\ req[r].retry)
         => /\ req'[r].pc = "done"
            /\ req'[r].err.name = "UnauthorizedError"
            /\ req'[r].err = createApiError(HTTP_UNAUTHORIZED,
                                            JsOr(req'[r].body, AxiosMessage),
                                            req'[r].body, "AxiosError")
            /\ UNCHANGED <<isRefreshing, failedQueue, store, storeQ, refreshCalls>>]_vars

\* C7 witness: a replayed request that was answered 401 again and rejected by
\* the generic error branch.
C7_Witness ==
  \E r \in Reqs :
    /\ req[r].pc = "done" /\ req[r].retry /\ req[r].sends = 2
    /\ req[r].status = HTTP_UNAUTHORIZED
    /\ req[r].err.name = "UnauthorizedError" /\ req[r].err.message # SessionExpired

\* C8: when a request is released for replay by a successful refresh, both new
\* tokens are already in the store, and every replay on the transport carries
\* the access token of that refresh.
C8_ReplayCarriesNewToken ==
  /\ [](\A r \in Reqs :
          (req[r].pc = "inflight" /\ req[r].sends >= 2)
            => req[r].hdr = req[r].tok /\ req[r].tok > InitialToken)
  /\ [][\A r \in Reqs :
          (req[r].pc \in {"persist", "queued"} /\ req'[r].pc = "attach")
            => /\ store'[ACCESS_TOKEN] = req'[r].tok
               /\ store'[REFRESH_TOKEN] = req'[r].tok
               /\ req'[r].tok > InitialToken]_vars

\* C8 witness: the request that started the cycle and a queued one are both
\* back on the transport with the new token.
C8_Witness ==
  \E o, q \in Reqs :
    /\ req[o].retry /\ ~req[q].retry
    /\ \A r \in {o, q} :
         req[r].pc = "inflight" /\ req[r].sends = 2 /\ req[r].hdr = InitialToken + 1

\* The failure path delivers the rejection of the request that started the cycle.
FailureDelivered(r) == req[r].pc = "clearing" /\ req'[r].pc = "done"

\* C9 as stated: when the failure path rejects the original request, the
\* store holds none of the four credential keys.
C9_StoreClearedAtRejection ==
  [][\A r \in Reqs : FailureDelivered(r) => StoreEmpty']_vars

\* C9 amended: when the failure path rejects the original request with the
\* session-expired UnauthorizedError, the store holds none of the four keys.
C9_StoreClearedAtSessionExpired ==
  [][\A r \in Reqs :
       (FailureDelivered(r) /\ req'[r].err.name = "UnauthorizedError") => StoreEmpty']_vars

\* C9 witness: a request rejected with the session-expired error, store empty.
C9_Witness ==
  \E r \in Reqs :
    req[r].pc = "done" /\ req[r].err.message = SessionExpired /\ StoreEmpty

\* C10: when the failure path rejects the original request, the session
\* reports isAuthenticated = false and user = null.
C10_SessionResetAtRejection ==
  [][\A r \in Reqs :
       FailureDelivered(r) => session' = [isAuthenticated |-> FALSE, user |-> 0]]_vars


\* A caller has been handed an Unauthorized (401) rejection for request r.
UnauthorizedDelivered(r) ==
  req[r].pc = "done" /\ req[r].err.name = "UnauthorizedError"

\* C11 as stated: every Unauthorized rejection delivered to a caller follows a
\* refresh attempt that failed: it is the session-expired error of the cycle the
\* request started, or the rejection of a cycle it was queued behind.
C11_UnauthorizedOnlyAfterFailedRefresh ==
  \A r \in Reqs :
    UnauthorizedDelivered(r)
      => (req[r].retry /\ req[r].err.message = SessionExpired) \/ req[r].rejBy # 0

\* C11 amended: every Unauthorized rejection delivered to a caller follows a
\* refresh attempt made for that request: a failed one (as above), or one that
\* succeeded and whose replay was answered 401 again and mapped by createApiError.
C11_UnauthorizedOnlyAfterRefreshAttempt ==
  \A r \in Reqs :
    UnauthorizedDelivered(r)
      => \/ req[r].retry /\ req[r].err.message = SessionExpired
         \/ req[r].rejBy # 0
         \/ /\ req[r].retry /\ req[r].sends >= 2 /\ req[r].status = HTTP_UNAUTHORIZED
            /\ req[r].err = createApiError(HTTP_UNAUTHORIZED, JsOr(req[r].body, AxiosMessage),
                                           req[r].body, "AxiosError")

\* C11 witness: the refresh succeeded (new tokens are stored) and the replay of
\* the request that started it was rejected with the server's 401.
C11_Witness ==
  \E r \in Reqs :
    /\ UnauthorizedDelivered(r) /\ req[r].retry /\ req[r].rejBy = 0
    /\ req[r].err.message = "denied"
    /\ store[ACCESS_TOKEN] > InitialToken /\ store[REFRESH_TOKEN] > InitialToken


\* The result the response interceptor hands over for a final answer (status, body).
ReplayResult(status, body) ==
  IF status = HTTP_OK THEN NoError
  ELSE createApiError(status, JsOr(body, AxiosMessage), body, "AxiosError")

\* C12: for the request that started a cycle, once the refresh has succeeded
\* (tokens stored) the request is replayed with the new token T2 in its header,
\* it is dispatched once, and whatever answers the replay is what the caller
\* gets: the request is then done and is never dispatched again.
C12_ReplayOnceWithNewToken ==
  [][\A r \in Reqs :
       /\ (req[r].pc = "persist" /\ req'[r].pc = "attach")
            => /\ ~isRefreshing' /\ req'[r].retry
               /\ req'[r].hdr = req[r].tok /\ store[ACCESS_TOKEN] = req[r].tok
               /\ req'[r].sends = req[r].sends
       /\ (req[r].retry /\ req[r].pc = "attach" /\ req'[r].pc # "attach")
            => /\ req'[r].pc = "inflight" /\ req'[r].sends = req[r].sends + 1
               /\ req'[r].hdr = req[r].tok
       /\ (req[r].retry /\ req[r].pc = "inflight" /\ req'[r].pc # "inflight")
            => /\ req'[r].pc = "done" /\ req'[r].sends = req[r].sends
               /\ req'[r].err = ReplayResult(req'[r].status, req'[r].body)
       /\ req[r].pc = "done" => req'[r] = req[r]]_vars

\* C12 witness: a first answer of 401 while idle, one refresh, and the replay
\* answered 200 settles the caller's promise successfully.
C12_Witness ==
  \E r \in Reqs :
    /\ req[r].pc = "done" /\ req[r].retry /\ req[r].got401 /\ req[r].sends = 2
    /\ req[r].status = HTTP_OK /\ req[r].err = NoError
    /\ refreshCalls = 1 /\ store[ACCESS_TOKEN] = InitialToken + 1


\* The cycle of r has read the refresh token and found none stored.
FoundNoRefreshToken(r) ==
  req[r].pc = "readRefresh" /\ req'[r].pc # "readRefresh" /\ store[REFRESH_TOKEN] = 0

\* The cycle that found no refresh token hands its rejection to the caller of r.
NoTokenFailureDelivered(r) ==
  FailureDelivered(r) /\ req[r].cause = UnauthorizedError(NoRefreshToken, "", "")

\* C13 as stated: a cycle that finds no refresh token makes no refresh call and
\* ends with the credentials cleared, the original request rejected with an
\* Unauthorized error and isRefreshing false again.
C13_NoTokenEndsUnauthorized ==
  [][\A r \in Reqs :
       /\ FoundNoRefreshToken(r) => refreshCalls' = refreshCalls /\ req'[r].pc = "clearing"
       /\ NoTokenFailureDelivered(r)
            => req'[r].err.name = "UnauthorizedError" /\ StoreEmpty' /\ ~isRefreshing']_vars

\* C13 amended: a cycle that finds no refresh token makes no refresh call; it
\* rejects every queued continuation, issues the four removals and, when they
\* have all succeeded, rejects the original request with the session-expired
\* Unauthorized error over an empty store; a removal that rejects is what the
\* original request is rejected with instead.  Either way isRefreshing is false
\* again and no refresh call was made.
C13_NoTokenSkipsRefreshCall ==
  [][\A r \in Reqs :
       /\ FoundNoRefreshToken(r)
            => /\ refreshCalls' = refreshCalls /\ req'[r].pc = "clearing" /\ isRefreshing'
               /\ failedQueue' = <<>>
               /\ \A i \in 1..Len(failedQueue) :
                    LET q == failedQueue[i]
                    IN /\ req'[q].pc = "done" /\ req'[q].rejBy = r
                       /\ req'[q].err = UnauthorizedError(NoRefreshToken, "", "")
               /\ storeQ' = Tail(storeQ) \o
                    [i \in 1..Len(ClearedKeys) |-> RemoveOp(ClearedKeys[i], r, "clearing")]
       /\ NoTokenFailureDelivered(r)
            => /\ ~isRefreshing' /\ refreshCalls' = refreshCalls
               /\ \/ /\ req'[r].err = UnauthorizedError(SessionExpired, req'[r].body,
                                                        "UnauthorizedError")
                     /\ StoreEmpty'
                  \/ req'[r].err = StorageError]_vars

\* C13 witness: no refresh call was ever made, the request that started the
\* cycle holds the session-expired error, a queued one was rejected by that
\* cycle, the store is empty and the flag is down.
C13_Witness ==
  \E o, q \in Reqs :
    /\ refreshCalls = 0 /\ ~isRefreshing /\ StoreEmpty
    /\ req[o].pc = "done" /\ req[o].err.message = SessionExpired
    /\ req[o].err.originalError = "UnauthorizedError"
    /\ req[q].rejBy = o /\ req[q].err.message = NoRefreshToken


\* The refresh call of the cycle r started has just been answered 401.
RefreshAnswered401(r) ==
  /\ req[r].pc = "refreshing" /\ req'[r].pc # "refreshing"
  /\ req'[r].cause = AxiosError(HTTP_UNAUTHORIZED)

\* The cycle whose refresh call was answered 401 hands its rejection to the caller.
Refresh401Delivered(r) ==
  FailureDelivered(r) /\ req[r].cause = AxiosError(HTTP_UNAUTHORIZED)

\* C14 as stated: when the refresh call is answered 401, the original caller
\* receives an Unauthorized error.
C14_Refresh401EndsUnauthorized ==
  [][\A r \in Reqs : Refresh401Delivered(r) => req'[r].err.name = "UnauthorizedError"]_vars

\* C14 amended: when the refresh call is answered 401, its error is handled by
\* the catch block only: no further refresh call, no read of the refresh token
\* and no entry in failedQueue come of it, and the flag stays up.  The original
\* caller then receives the session-expired Unauthorized error that names the
\* refresh error as its cause, or the storage error of a removal that rejected;
\* it never receives the refresh call's own error.
C14_Refresh401NeitherNestsNorSurfaces ==
  [][\A r \in Reqs :
       /\ RefreshAnswered401(r)
            => /\ req'[r].pc = "clearing" /\ isRefreshing /\ isRefreshing'
               /\ refreshCalls' = refreshCalls
               /\ failedQueue' = <<>>
               /\ \A x \in Reqs \ {r} : req'[x].pc \notin CyclePcs
               /\ \A i \in 1..Len(storeQ') :
                    i > Len(storeQ) => storeQ'[i].op = "remove" /\ storeQ'[i].req = r
       /\ Refresh401Delivered(r)
            => /\ req'[r].err # AxiosError(HTTP_UNAUTHORIZED)
               /\ req'[r].err.name # "AxiosError"
               /\ \/ req'[r].err = UnauthorizedError(SessionExpired, req'[r].body, "AxiosError")
                  \/ req'[r].err = StorageError]_vars

\* C14 witness: the one refresh call was answered 401 and the caller of the
\* request that started the cycle holds the session-expired error caused by it.
C14_Witness ==
  \E r \in Reqs :
    /\ req[r].pc = "done" /\ req[r].retry /\ req[r].sends = 1 /\ refreshCalls = 1
    /\ req[r].err = UnauthorizedError(SessionExpired, req[r].body, "AxiosError")
    /\ ~isRefreshing /\ failedQueue = <<>>


\* The URL of request record q contains one of the three auth paths.
ExemptUrlIds ==
  {u \in DOMAIN Urls :
     \E pat \in {AUTH_LOGIN, AUTH_SIGNUP, AUTH_REFRESH} : includes(Urls[u], pat)}

UrlExempt(q) == q.url \in ExemptUrlIds

\* A getItem(ACCESS_TOKEN) of the request interceptor of r is pending.
ReadsAccessToken(q, r) ==
  \E i \in 1..Len(q) : q[i].req = r /\ q[i].op = "get" /\ q[i].key = ACCESS_TOKEN

\* URLs that contain the signup and the refresh path, the latter behind a prefix.
AuthUrlSamples ==
  { <<"/", "a", "u", "t", "h", "/", "s", "i", "g", "n", "u", "p">>,
    <<"/", "v", "1", "/", "a", "u", "t", "h", "/", "r", "e", "f", "r", "e", "s", "h">> }

AuthUrlSamplesExempt == \A u \in AuthUrlSamples : isAuthEndpoint(u)

\* C15: for a request whose URL contains /auth/login, /auth/signup or
\* /auth/refresh the request interceptor never reads the access token and
\* never sets Authorization: no such read is ever pending, the first dispatch
\* goes out at once without a header although a token is stored, and a replay
\* goes out with exactly the header the response interceptor has put there.
\* URLs with the signup and the refresh path are recognised as exempt as well.
C15_AuthEndpointsExempt ==
  /\ [](AuthUrlSamplesExempt)
  /\ [](\A r \in Reqs :
          (req[r].pc # "new" /\ UrlExempt(req[r]))
            => ~ReadsAccessToken(storeQ, r) /\ req[r].pc # "attach")
  /\ [][\A r \in Reqs :
          UrlExempt(req'[r]) =>
            /\ (req[r].pc = "new" /\ req'[r].pc # "new")
                 => /\ req'[r].pc = "inflight" /\ req'[r].sends = 1
                    /\ req'[r].hdr = 0 /\ storeQ' = storeQ /\ store' = store
            /\ (req[r].pc \in {"persist", "queued"} /\ req'[r].pc = "inflight")
                 => /\ req'[r].hdr = req'[r].tok /\ req'[r].sends = req[r].sends + 1
                    /\ ~ReadsAccessToken(storeQ', r)]_vars

\* C15 witness: a login request is on the transport without Authorization
\* header while an access token is stored and no storage call is pending.
C15_Witness ==
  \E r \in Reqs :
    /\ includes(Urls[req[r].url], AUTH_LOGIN)
    /\ req[r].pc = "inflight" /\ req[r].sends = 1 /\ req[r].hdr = 0
    /\ store[ACCESS_TOKEN] = InitialToken /\ storeQ = <<>>


\* The request interceptor of r has got the answer of its getItem.
TokenRead(r) == req[r].pc = "attach" /\ req'[r].pc # "attach"

\* C16: when the request interceptor of a request to a non-exempt URL has read
\* the access token, the request goes on the transport (it is not rejected):
\* with Authorization = Bearer <the token stored at that moment> when the read
\* succeeded and a token is stored, and with its headers as they were when no
\* token is stored or the read failed.
C16_TokenAttachedWhenPresent ==
  [][\A r \in Reqs :
       (TokenRead(r) /\ ~UrlExempt(req[r]))
         => /\ req'[r].pc = "inflight" /\ req'[r].err = NoError
            /\ req'[r].sends = req[r].sends + 1
            /\ (storeFails' = storeFails /\ store[ACCESS_TOKEN] # 0)
                 => req'[r].hdr = store[ACCESS_TOKEN]
            /\ (storeFails' # storeFails \/ store[ACCESS_TOKEN] = 0)
                 => req'[r].hdr = req[r].hdr]_vars

\* C16 witness: two first dispatches side by side, one carrying the stored
\* token, the other without header because its read failed or found no token.
C16_Witness ==
  \E a, b \in Reqs :
    /\ req[a].pc = "inflight" /\ req[a].sends = 1 /\ req[a].hdr = InitialToken
    /\ req[b].pc = "inflight" /\ req[b].sends = 1 /\ req[b].hdr = 0
    /\ ~UrlExempt(req[a]) /\ ~UrlExempt(req[b])


\* C17: a response with an error status other than 401 is mapped once by
\* createApiError and rejected to the caller: the request is done and was not
\* dispatched again, and isRefreshing, failedQueue, the store, the pending
\* storage calls and the refresh count are as before, whether or not a refresh
\* cycle is running.
C17_OtherErrorsMappedAndRejected ==
  [][\A r \in Reqs, s \in {HTTP_NOT_FOUND, HTTP_INTERNAL_SERVER_ERROR} :
       Answered(r, s)
         => /\ req'[r].pc = "done" /\ req'[r].sends = req[r].sends
            /\ req'[r].retry = req[r].retry
            /\ req'[r].err = createApiError(s, JsOr(req'[r].body, AxiosMessage),
                                            req'[r].body, "AxiosError")
            /\ req'[r].err.statusCode = s
            /\ req'[r].err.name = (IF s = HTTP_NOT_FOUND THEN "NotFoundError" ELSE "ServerError")
            /\ \A x \in Reqs \ {r} : req'[x] = req[x]
            /\ UNCHANGED <<isRefreshing, failedQueue, store, storeQ, refreshCalls>>]_vars

\* C17 witness: a request was rejected with a NotFoundError on its first answer
\* while the refresh call of another request is outstanding.
C17_Witness ==
  \E r, o \in Reqs :
    /\ req[r].pc = "done" /\ req[r].err.name = "NotFoundError" /\ req[r].sends = 1
    /\ ~req[r].retry /\ req[r].status = HTTP_NOT_FOUND
    /\ req[o].pc = "refreshing" /\ isRefreshing


\* The messages of TransportFailures that contain 'timeout'.
TimeoutMessages == {"timeout of 10000ms exceeded", "connect timeout"}

\* C18: a request that fails without a response is rejected with a TimeoutError
\* when error.code is ECONNABORTED or error.message contains 'timeout', and with
\* a NetworkError otherwise (statusCode 0, the transport's message, the axios
\* error as cause); the request is done and not dispatched again, nothing is
\* enqueued, and isRefreshing, the store, the pending storage calls and the
\* refresh count are as before.
C18_NoResponseIsTimeoutOrNetwork ==
  [][\A r \in Reqs :
       Answered(r, 0)
         => /\ req'[r].pc = "done" /\ req'[r].sends = req[r].sends
            /\ req'[r].retry = req[r].retry
            /\ \E f \in TransportFailures :
                 /\ req'[r].err.message = f.message
                 /\ req'[r].err.name =
                      (IF f.code = "ECONNABORTED" \/ f.message \in TimeoutMessages
                       THEN "TimeoutError" ELSE "NetworkError")
            /\ req'[r].err.statusCode = 0 /\ req'[r].err.response = ""
            /\ req'[r].err.originalError = "AxiosError"
            /\ \A x \in Reqs \ {r} : req'[x] = req[x]
            /\ UNCHANGED <<isRefreshing, failedQueue, store, storeQ, refreshCalls>>]_vars

\* C18 witness: while the refresh call of one request is outstanding, another
\* request has failed with a message that contains 'timeout' under a code other
\* than ECONNABORTED, and was rejected with a TimeoutError.
C18_Witness ==
  \E r, o \in Reqs :
    /\ req[r].pc = "done" /\ req[r].err.name = "TimeoutError"
    /\ req[r].err.message = "connect timeout" /\ req[r].status = 0
    /\ req[o].pc = "refreshing" /\ isRefreshing /\ failedQueue = <<>>


\* The class the claim names for a status code.
ClassOf(statusCode) ==
  CASE statusCode = 400 -> "BadRequestError"
    [] statusCode = 401 -> "UnauthorizedError"
    [] statusCode = 403 -> "ForbiddenError"
    [] statusCode = 404 -> "NotFoundError"
    [] statusCode = 409 -> "ConflictError"
    [] statusCode = 500 -> "ServerError"
    [] OTHER -> "ApiError"

\* createApiError has been called with probe.arg and has returned probe.out.
Created == probe.fn \in {"createApiError", "formatErrorMessage"} /\ probe.arg.name = "args"

\* C19: createApiError returns, for every status code, an error of the class
\* the code maps to (the generic ApiError for every code without a class of
\* its own) whose statusCode is the code given and whose message, response
\* body and cause are the ones given.
C19_CreateApiErrorMapsStatus ==
  Created
    => /\ probe.out.statusCode = probe.arg.statusCode
       /\ probe.out.name = ClassOf(probe.arg.statusCode)
       /\ probe.out.name \in ApiErrorNames
       /\ probe.out.message = probe.arg.message
       /\ probe.out.response = probe.arg.response
       /\ probe.out.originalError = probe.arg.originalError

\* C19 witness: a status code without a class of its own came back as a generic
\* ApiError that carries the code, the message, the body and the cause.
C19_Witness ==
  /\ Created /\ probe.arg.statusCode = 503 /\ probe.out.name = "ApiError"
  /\ probe.out.statusCode = 503 /\ probe.out.message = "not here"
  /\ probe.out.response = "denied" /\ probe.out.originalError = "AxiosError"


\* formatErrorMessage has been called with probe.out and has returned probe.text.
Formatted == probe.fn = "formatErrorMessage"

\* C20 as stated: formatErrorMessage returns the body message of an ApiError,
\* else the ApiError's own message; the message of any other Error; the fixed
\* sentence for everything else; so the error createApiError(404, m) built
\* without a body gives back m.
C20_FormatReturnsOwnMessage ==
  Formatted
    => /\ probe.text =
            (IF probe.out.name \in ApiErrorNames
             THEN (IF probe.out.response # "" THEN probe.out.response ELSE probe.out.message)
             ELSE IF probe.out.name \in {"Error", "AxiosError"} THEN probe.out.message
             ELSE "An unexpected error occurred")
       /\ (Created /\ probe.arg.statusCode = 404 /\ probe.arg.response = "")
            => probe.text = probe.arg.message

\* C20 amended: formatErrorMessage returns a string for every value: for an
\* ApiError the body message if that is non-empty, else its own message if that
\* is non-empty, else the fixed sentence; for any other Error its message, empty
\* or not; the fixed sentence for everything else.  The error
\* createApiError(404, m) built without a body gives back m when m is non-empty
\* and the fixed sentence when m is empty.
C20_FormatFallsBackOnEmptyMessage ==
  Formatted
    => /\ probe.text =
            (IF probe.out.name \in ApiErrorNames
             THEN (IF probe.out.response # "" THEN probe.out.response
                   ELSE IF probe.out.message # "" THEN probe.out.message
                   ELSE "An unexpected error occurred")
             ELSE IF probe.out.name \in {"Error", "AxiosError"} THEN probe.out.message
             ELSE "An unexpected error occurred")
       /\ (Created /\ probe.arg.statusCode = 404 /\ probe.arg.response = "")
            => probe.text = (IF probe.arg.message # "" THEN probe.arg.message
                             ELSE "An unexpected error occurred")

\* C20 witness: the NotFoundError createApiError built for 404 and "not here",
\* without a body, was formatted to "not here".
C20_Witness ==
  /\ Formatted /\ Created /\ probe.arg.statusCode = 404 /\ probe.arg.response = ""
  /\ probe.out.name = "NotFoundError" /\ probe.text = "not here"


\* The position of the request interceptor's getItem of r among the pending
\* storage calls: where the replay of r stands in line.
AttachPos(q, r) == CHOOSE i \in 1..Len(q) : q[i].req = r /\ q[i].tag = "attach"

\* A successful refresh releases the queue in this step.
QueueReleased ==
  /\ failedQueue # <<>> /\ failedQueue' = <<>>
  /\ \A i \in 1..Len(failedQueue) : req'[failedQueue[i]].pc = "attach"

\* C25: when a successful refresh releases the queue, every queued request has
\* its replay initiated in that step, and for two of them, A enqueued before B,
\* the replay of A stands before the replay of B.
C25_QueueReleasedInArrivalOrder ==
  [][QueueReleased
       => \A i, j \in 1..Len(failedQueue) :
            i < j => AttachPos(storeQ', failedQueue[i]) < AttachPos(storeQ', failedQueue[j])]_vars

\* C25 witness: two requests have been released from the queue; the one issued
\* later was answered 401 and enqueued first, and its replay stands first.
C25_Witness ==
  \E a, b \in BurstReqs :
    /\ a > b
    /\ \A r \in {a, b} : req[r].pc = "attach" /\ ~req[r].retry /\ req[r].sends = 1
                         /\ req[r].hdr = req[r].tok /\ req[r].tok > InitialToken
    /\ \E i, j \in 1..Len(storeQ) :
         i < j /\ storeQ[i].req = a /\ storeQ[j].req = b
    /\ ~isRefreshing /\ failedQueue = <<>>


\* A setItem of the cycle r started has just rejected: the catch block has run.
PersistFailed(r) ==
  req[r].pc = "persist" /\ req'[r].pc # "persist" /\ req'[r].cause = StorageError

\* The cycle whose setItem rejected hands its rejection to the caller of r.
PersistFailureDelivered(r) == FailureDelivered(r) /\ req[r].cause = StorageError

\* C28 as stated: when a setItem rejects after a successful refresh call, the
\* cycle ends with the four keys removed, the original request rejected with an
\* UnauthorizedError and isRefreshing false.
C28_PersistFailureEndsUnauthorized ==
  [][\A r \in Reqs :
       PersistFailureDelivered(r)
         => req'[r].err.name = "UnauthorizedError" /\ StoreEmpty' /\ ~isRefreshing']_vars

\* C28 amended: when a setItem rejects after a successful refresh call, the
\* catch block rejects every queued continuation with the storage error,
\* replays nothing and issues the four removals.  When they have all succeeded
\* the original request is rejected with the session-expired UnauthorizedError
\* over an empty store; a removal that rejects is what it is rejected with
\* instead.  Either way the request was not dispatched again and isRefreshing
\* is false.
C28_PersistFailureTakesFailurePath ==
  [][\A r \in Reqs :
       /\ PersistFailed(r)
            => /\ req'[r].pc = "clearing" /\ isRefreshing'
               /\ failedQueue' = <<>>
               /\ \A i \in 1..Len(failedQueue) :
                    LET q == failedQueue[i]
                    IN /\ req'[q].pc = "done" /\ req'[q].rejBy = r
                       /\ req'[q].err = StorageError /\ req'[q].sends = req[q].sends
               /\ \A x \in Reqs : req'[x].sends = req[x].sends
               /\ \A x \in Reqs : req[x].pc # "attach" => req'[x].pc # "attach"
               /\ storeQ' = Tail(storeQ) \o
                    [i \in 1..Len(ClearedKeys) |-> RemoveOp(ClearedKeys[i], r, "clearing")]
       /\ PersistFailureDelivered(r)
            => /\ ~isRefreshing' /\ req'[r].sends = req[r].sends
               /\ \/ /\ req'[r].err = UnauthorizedError(SessionExpired, req'[r].body, "Error")
                     /\ StoreEmpty'
                  \/ req'[r].err = StorageError]_vars

\* C28 witness: the one refresh call succeeded, a setItem rejected, and now the
\* request that started the cycle holds the session-expired error, the queued
\* one the storage error, neither was dispatched twice, and the store is empty.
C28_Witness ==
  \E o, q \in Reqs :
    /\ refreshCalls = 1 /\ issued = 1 /\ storeFails = 1 /\ ~isRefreshing /\ StoreEmpty
    /\ req[o].pc = "done" /\ req[o].sends = 1
    /\ req[o].err = UnauthorizedError(SessionExpired, req[o].body, "Error")
    /\ req[q].pc = "done" /\ req[q].sends = 1 /\ req[q].rejBy = o
    /\ req[q].err = StorageError

\* Caller request r went to the login or the signup endpoint.
ToLoginOrSignup(r) ==
  includes(Urls[req[r].url], AUTH_LOGIN) \/ includes(Urls[req[r].url], AUTH_SIGNUP)

\* The server answers 401 to request r, which has not been retried, while no
\* refresh cycle is running.
Idle401(r) ==
  /\ req[r].pc = "inflight" /\ req'[r].pc # "inflight"
  /\ req'[r].status = HTTP_UNAUTHORIZED /\ ~req[r].retry /\ ~isRefreshing

\* C29 as stated: a 401 answered to a login or signup request, not retried and
\* observed with no cycle running, starts a refresh cycle; when that cycle finds
\* no refresh token stored it makes no refresh call and ends with the four keys
\* removed and the caller rejected with the session-expired Unauthorized error.
C29_AuthEndpoint401EndsSessionExpired ==
  [][\A r \in Reqs :
       ToLoginOrSignup(r) =>
         /\ Idle401(r) => req'[r].pc = "readRefresh" /\ isRefreshing' /\ req'[r].retry
         /\ FoundNoRefreshToken(r) => refreshCalls' = refreshCalls
         /\ NoTokenFailureDelivered(r)
              => /\ req'[r].err = UnauthorizedError(SessionExpired, req'[r].body,
                                                    "UnauthorizedError")
                 /\ StoreEmpty']_vars

\* C29 amended: a 401 answered to a login or signup request, not retried and
\* observed with no cycle running, starts a refresh cycle (the read of the refresh
\* token is queued, the request is marked retried and is not settled).  When the
\* cycle finds no refresh token stored it makes no refresh call and issues the
\* four removals; the caller is then rejected with the session-expired
\* Unauthorized error over an empty store, or with the storage error of a
\* removal that rejected: never with the message of the server's 401.
C29_AuthEndpoint401EntersRefreshFlow ==
  [][\A r \in Reqs :
       ToLoginOrSignup(r) =>
         /\ Idle401(r)
              => /\ req'[r].pc = "readRefresh" /\ isRefreshing' /\ req'[r].retry
                 /\ req'[r].err = NoError /\ req'[r].sends = req[r].sends
                 /\ storeQ' = Append(storeQ, GetOp(REFRESH_TOKEN, r, "readRefresh"))
         /\ FoundNoRefreshToken(r)
              => /\ refreshCalls' = refreshCalls /\ req'[r].pc = "clearing"
                 /\ storeQ' = Tail(storeQ) \o
                      [i \in 1..Len(ClearedKeys) |-> RemoveOp(ClearedKeys[i], r, "clearing")]
         /\ NoTokenFailureDelivered(r)
              => /\ refreshCalls' = refreshCalls /\ req'[r].sends = req[r].sends
                 /\ req'[r].body = "denied" /\ req'[r].err.message # req'[r].body
                 /\ \/ /\ req'[r].err = UnauthorizedError(SessionExpired, req'[r].body,
                                                          "UnauthorizedError")
                       /\ StoreEmpty'
                    \/ req'[r].err = StorageError]_vars

\* C29 witness: a login and a signup request, each sent once and answered 401
\* 'denied', both ended with the session-expired error of a cycle that found no
\* refresh token; no refresh call was made and the store is empty.
C29_Witness ==
  \E o, q \in Reqs :
    /\ includes(Urls[req[o].url], AUTH_LOGIN) /\ includes(Urls[req[q].url], AUTH_SIGNUP)
    /\ refreshCalls = 0 /\ ~isRefreshing /\ StoreEmpty
    /\ \A x \in {o, q} :
         /\ req[x].pc = "done" /\ req[x].sends = 1 /\ req[x].status = HTTP_UNAUTHORIZED
         /\ req[x].body = "denied" /\ req[x].hdr = 0
         /\ req[x].err = UnauthorizedError(SessionExpired, "denied", "UnauthorizedError")


\* The call of checkAuth in progress has just ended.
CheckAuthEnded == ctx["checkAuth"].pc = "check" /\ ctx'["checkAuth"].pc = "idle"

\* One read of checkAuth has just been served: the key it read.
CheckRead(k) ==
  /\ ctx["checkAuth"].pc = "check" /\ ctx'["checkAuth"].pend = ctx["checkAuth"].pend - 1
  /\ Head(storeQ).key = k

\* C21: checkAuth sets isAuthenticated = true and user = the stored user only
\* if the logged-in flag, the cached user and the access token were all read
\* present; in every other case, a read that failed included, it sets
\* isAuthenticated = false and user = null.  Each read gives the stored value
\* or, when it fails, nothing; no read ends the call otherwise than by its
\* last step, which clears isLoading, and isLoading is set only while a call
\* is running.
C21_CheckAuthAllOrNothing ==
  /\ [](isLoading => ctx["checkAuth"].pc = "check")
  /\ [][/\ \A k \in StoreKeys :
             CheckRead(k) =>
               LET v == IF k = "isLoggedIn" THEN ctx'["checkAuth"].isLoggedIn
                        ELSE IF k = "user" THEN ctx'["checkAuth"].storedUser
                        ELSE ctx'["checkAuth"].authToken
               IN /\ k \in {"isLoggedIn", "user", ACCESS_TOKEN}
                  /\ v = store[k] \/ (v = 0 /\ storeFails' = storeFails + 1)
                  /\ ctx'["checkAuth"].pc \in {"check", "idle"}
                  /\ ctx'["checkAuth"].pc = "idle" <=> ctx["checkAuth"].pend = 1
        /\ CheckAuthEnded =>
             LET c == ctx'["checkAuth"]
             IN /\ ~isLoading'
                /\ IF c.isLoggedIn # 0 /\ c.storedUser # 0 /\ c.authToken # 0
                   THEN session' = [isAuthenticated |-> TRUE, user |-> c.storedUser]
                   ELSE session' = [isAuthenticated |-> FALSE, user |-> 0]
        /\ (ctx["checkAuth"].pc = "check" /\ ~CheckAuthEnded)
             => session' = session \/ ctx'["checkAuth"] = ctx["checkAuth"]]_vars

\* C21 witness: a session is stored, a call of checkAuth made after a login
\* has ended, its read of the access token failed while the flag and the user
\* were read, and the session is unauthenticated with isLoading cleared.
C21_Witness ==
  /\ ctx["checkAuth"].pc = "idle" /\ ctx["checkAuth"].gen > 0
  /\ ~isLoading
  /\ \A k \in StoreKeys \ {REFRESH_TOKEN} : store[k] = MockToken
  /\ ctx["checkAuth"].isLoggedIn = MockToken /\ ctx["checkAuth"].storedUser = MockToken
  /\ ctx["checkAuth"].authToken = 0
  /\ session = [isAuthenticated |-> FALSE, user |-> 0]


\* C22: in every state, isAuthenticated is true if and only if user is
\* non-null.
C22_SessionNeverPartial == session.isAuthenticated <=> session.user # 0


\* The multiSet of the login or signup mutation of r has just been served.
LoginStoreServed(r) == hook[r].pc = "loginStore" /\ hook'[r].pc # "loginStore"

\* The session has just become that of the user a login answered with.
BecameLoggedIn ==
  session' # session /\ session' = [isAuthenticated |-> TRUE, user |-> LoginToken]

\* C23 as stated: the store holds the user, T1, R1 and the flag of a login at
\* the moment the session becomes authenticated with that user, and a request to
\* a non-exempt URL whose interceptor then reads the token is sent with Bearer T1.
C23_LoginThenBearer ==
  [][/\ BecameLoggedIn => \A k \in StoreKeys : store'[k] = LoginToken
     /\ \A r \in Reqs :
          (TokenRead(r) /\ ~UrlExempt(req[r]) /\ store[ACCESS_TOKEN] = LoginToken)
            => req'[r].pc = "inflight" /\ req'[r].hdr = LoginToken]_vars

\* C23 amended: the session becomes that of the login only at the step its
\* multiSet has stored the four pairs (a login request that failed, or a
\* multiSet that rejected, changes neither store nor session); a request to a
\* non-exempt URL whose interceptor then reads the token is sent with Bearer T1
\* when that read succeeds, and without Authorization header when it fails.
C23_LoginStoresThenAuthenticates ==
  [][/\ BecameLoggedIn
          => /\ \A k \in StoreKeys : store'[k] = LoginToken
             /\ \E r \in Reqs :
                  /\ LoginStoreServed(r) /\ hook'[r].pc = "finished"
                  /\ req[r].status = HTTP_OK
                  /\ Urls[req[r].url] \in {AUTH_LOGIN, AUTH_SIGNUP}
     /\ \A r \in Reqs :
          /\ (LoginStoreServed(r) /\ hook'[r].pc = "finished")
               => /\ session' = [isAuthenticated |-> TRUE, user |-> LoginToken]
                  /\ \A k \in StoreKeys : store'[k] = LoginToken
          /\ (LoginStoreServed(r) /\ hook'[r].pc = "failed")
               => session' = session /\ store' = store
          /\ (Settled(r) /\ hook'[r].pc = "failed") => session' = session /\ storeQ' = storeQ
          /\ (TokenRead(r) /\ ~UrlExempt(req[r]) /\ store[ACCESS_TOKEN] = LoginToken)
               => /\ req'[r].pc = "inflight"
                  /\ IF storeFails' = storeFails
                     THEN req'[r].hdr = LoginToken
                     ELSE req'[r].hdr = 0]_vars

\* C23 witness: nobody was logged in, a login has finished, the store holds
\* its four values, the session is authenticated with its user, and a request
\* issued to a non-exempt URL is on the transport with Bearer T1.
C23_Witness ==
  \E r, q \in Reqs :
    /\ r < q
    /\ Urls[req[r].url] = AUTH_LOGIN /\ hook[r].pc = "finished"
    /\ \A k \in StoreKeys : store[k] = LoginToken
    /\ session = [isAuthenticated |-> TRUE, user |-> LoginToken]
    /\ ~UrlExempt(req[q]) /\ req[q].pc = "inflight" /\ req[q].sends = 1
    /\ req[q].hdr = LoginToken
    /\ storeFails = 0 /\ \A x \in Reqs \ {r, q} : req[x].pc = "new"
    /\ \A x \in Reqs : x < r => req[x].pc = "new"


\* logout of the context has just completed: its last removal was served.
ContextLogoutCompleted ==
  /\ ctx["logout"].pc = "ctxClear" /\ ctx'["logout"].pc = "idle"
  /\ storeFails' = storeFails

\* The useLogout mutation of r has just completed: the last removal of
\* onSuccess or of onError was served.
HookLogoutCompleted(r) ==
  hook[r].pc \in {"logoutClear", "logoutClearAgain"} /\ hook'[r].pc = "finished"

\* C24: when a logout completes, through useLogout or through logout of the
\* context, the store holds none of authToken, refreshToken, user, isLoggedIn
\* and the session is isAuthenticated = false, user = null.
C24_LogoutDestroysCredentials ==
  [][(ContextLogoutCompleted \/ \E r \in Reqs : HookLogoutCompleted(r))
       => StoreEmpty' /\ session' = [isAuthenticated |-> FALSE, user |-> 0]]_vars


\* Nothing is in flight any more: every request issued has settled, every
\* logout has run its callbacks to the end, no storage call is pending and no
\* refresh cycle is running.
AllSettled ==
  /\ \A r \in Reqs : req[r].pc \in {"new", "done"} /\ hook[r].pc \in {"none", "finished"}
  /\ ~LogoutPending
  /\ storeQ = <<>> /\ failedQueue = <<>> /\ ~isRefreshing

\* A logout has run to its end and a refresh call has been answered with a
\* new pair.
LoggedOutAroundRefresh ==
  /\ \E r \in Reqs : Urls[req[r].url] = AUTH_LOGOUT /\ hook[r].pc = "finished"
  /\ issued > 0

\* C27: once a logout and a refresh cycle whose refresh call succeeded have
\* both run and everything has settled, the store holds neither authToken nor
\* refreshToken.
C27_NoPairLeftAfterLogout ==
  (AllSettled /\ LoggedOutAroundRefresh /\ session = [isAuthenticated |-> FALSE, user |-> 0])
    => store[ACCESS_TOKEN] = 0 /\ store[REFRESH_TOKEN] = 0


\* ------------------------------------------------------------------ C26
\* A failure the policy may repeat: a 5xx answer, a network error, a timeout.
Transient(error) ==
  \/ error.name \in {"NetworkError", "TimeoutError"}
  \/ error.name \in ApiErrorNames /\ error.statusCode >= 500

\* The step makes another attempt after a failure.
Retried == retryer'.failureCount = retryer.failureCount + 1

\* C26: the default retry policy of queries and of mutations never repeats an
\* attempt that failed with a 4xx status; only 5xx, network and timeout
\* failures are repeated, and at most maxRetries (3) times.
C26_OnlyTransientFailuresRetried ==
  /\ [](retryer.failureCount <= maxRetries)
  /\ [][Retried => Transient(retryer'.error)]_vars

\* ------------------------------------------------------------------ C30
UpdateBegun == \E m \in 1..MaxUpdates : items.upd[m].pc # "idle"

EveryUpdateFailed ==
  /\ UpdateBegun
  /\ \A m \in 1..MaxUpdates : items.upd[m].pc \in {"idle", "error"}

UpdatesSettled ==
  Cardinality({m \in 1..MaxUpdates : items.upd[m].pc \in {"error", "success"}})

\* C30: once every update of the item has failed, whatever their number,
\* overlap and order of failure, the cached detail is the value it held before
\* the first update began; the detail and the lists are invalidated once per
\* settlement.
C30_RollbackRestoresOriginal ==
  /\ EveryUpdateFailed => items.detail = items.original
  /\ items.detailInvalidations = UpdatesSettled
  /\ items.listInvalidations = UpdatesSettled

====
